---- MODULE Spec2Model ----
(***************************************************************************)
(* TrendXL: the trend aggregation and ranking pipeline.                    *)
(*                                                                         *)
(*   backend/services/gpt_service.py       relevance filter / ranker       *)
(*   backend/services/ensemble_service.py  content source client           *)
(*   backend/services/sqlite_service.py    persistence adapter             *)
(*   backend/routers/trends.py, analysis.py  request handlers              *)
(*                                                                         *)
(* Each component is a set of operators computed as the code computes      *)
(* them, and a specification that applies them to inputs drawn from        *)
(* bounded sets.  Identifiers are small naturals standing for distinct     *)
(* platform identifiers; Python references to the candidate dictionaries   *)
(* are positions in the candidate list.                                    *)
(***************************************************************************)
EXTENDS Integers, Sequences, FiniteSets

VARIABLES
    \* ---- GPTService.filter_and_rank_trends ----
    trends,           \* the candidate list passed in (its dicts are updated in place)
    llm,              \* what the chat completion does: throws, or the parsed JSON array
    max_results,      \* the requested result count
    filtered_trends,  \* the local accepted list (positions in trends) when the call ended
    result,           \* the returned list (positions in trends)
    outcome,          \* "idle" before the call, then "ranked" or "fallback"
    previous_run,     \* when the call was repeated: what the first call left
    summarized,       \* the identifiers written into the prompt of the last call
    \* ---- EnsembleService.search_hashtag_trends / search_keyword_trends ----
    search_kind,      \* "hashtag" or "keyword": which of the two methods is called
    search_terms,     \* the hashtags / keywords passed in
    upstream,         \* per term, what the upstream search call does
    search_max,       \* the max_results argument
    search_calls,     \* the terms an upstream call was issued for, in order
    search_result,    \* the returned list
    search_state,     \* "idle" before the call, then "returned"
    \* ---- refresh_trends, step 2: aggregation ----
    hashtag_trends,   \* what search_hashtag_trends returned
    keyword_trends,   \* what search_keyword_trends returned
    unique_trends,    \* the deduplicated list
    agg_state,        \* "idle", then "done"
    \* ---- SQLiteService: the store ----
    Users,            \* the rows of table Users, in insertion order
    Trends,           \* the rows of table Trends, in insertion order
    now,              \* the clock datetime.now() reads
    ever_saved,       \* history: the identifiers a row was written for
    latest,           \* history: per handle, the record of its last successful
                      \* create_user_profile (a sequence of none or one)
    last,             \* the last call made on the store or the profile client,
                      \* with its arguments and what it returned
    \* ---- SQLiteService.get_user_trends / get_all_trends ----
    listed,           \* the last list query since the last write, with its result
    saved_for,        \* history: the <<handle, identifier>> pairs of the successful
                      \* save_trends calls
    \* ---- two requests writing to the store at the same time ----
    race_kind,        \* which upsert both make: "save_trends" or "create_user_profile"
    race_args,        \* per request, the record it writes
    race_pc,          \* per request: "check" (before its SELECT), "write" (after
                      \* it, before its INSERT or UPDATE), then "done"
    race_existing,    \* per request, the row id its SELECT returned (0: none)
    race_ok,          \* per request, whether its call succeeded
    race_start,       \* the two tables when the requests started
    \* ---- GPTService.analyze_profile ----
    analyzed_profile, \* the profile_data dict passed in
    user_posts,       \* the recent posts passed in
    gpt_reply,        \* what the chat completion does
    profile_analysis, \* what the call did: returned a ProfileAnalysis, or raised
    \* ---- POST /refresh-trends ----
    refresh_request,  \* the request, and what the services it calls will do
    refresh_response, \* the answer: status code and returned trends
    \* ---- EnsembleService.extract_username_from_url ----
    tiktok_url,       \* the URL passed in, a sequence of characters
    extracted,        \* what the call did: returned a username, or raised
    \* ---- EnsembleService._calculate_engagement_rate and its callers ----
    statistics,       \* the statistics dict of one post
    rates             \* the rate the search attaches and the rate the metrics use

rankVars == <<trends, llm, max_results, filtered_trends, result, outcome,
              previous_run, summarized>>

searchVars == <<search_kind, search_terms, upstream, search_max, search_calls,
                search_result, search_state>>

aggVars == <<hashtag_trends, keyword_trends, unique_trends, agg_state>>

storeVars == <<Users, Trends, now, ever_saved, latest, last>>

listVars == <<listed, saved_for>>

raceVars == <<race_kind, race_args, race_pc, race_existing, race_ok, race_start>>

deriveVars == <<analyzed_profile, user_posts, gpt_reply, profile_analysis>>

refreshVars == <<refresh_request, refresh_response>>

resolveVars == <<tiktok_url, extracted>>

engagementVars == <<statistics, rates>>

vars == <<rankVars, searchVars, aggVars, storeVars, listVars, raceVars,
          deriveVars, refreshVars, resolveVars, engagementVars>>

(***************************************************************************)
(* Bounds of the model.                                                    *)
(***************************************************************************)
MaxCand == 2       \* candidates in one ranking call
MaxEntries == 2    \* entries in one LLM response array
MaxPosts == 2      \* posts in one upstream search response
MaxBatch == 2      \* items in one search batch handed to the aggregator
MaxSave == 2       \* items in one save_trends call
MaxClock == 4      \* rows stamped with a save time in one run
MaxRecent == 2     \* recent posts passed to analyze_profile
MaxFound == 1      \* posts one upstream search returns during refresh-trends
MaxUrl == 5        \* characters of a profile URL

(***************************************************************************)
(* Sequence helpers.                                                       *)
(***************************************************************************)
Range(s) == {s[i] : i \in 1..Len(s)}

Min(a, b) == IF a <= b THEN a ELSE b

\* Python's s[:n] for n >= 0
Take(s, n) == SubSeq(s, 1, Min(n, Len(s)))

SeqsUpTo(S, n) == UNION {[1..k -> S] : k \in 0..n}

(***************************************************************************)
(* Relevance filter / ranker: GPTService.filter_and_rank_trends            *)
(***************************************************************************)
Threshold == 70

Scores == {Threshold - 1, Threshold, Threshold + 25}

EngagementRates == {1, 2}

\* trends[:20]
PromptLimit == 20

\* A candidate dictionary: the identifier, the engagement rate, and the five
\* enrichment keys, which one update() call sets together.
Candidate(id, er) ==
    [aweme_id |-> id, engagement_rate |-> er, enriched |-> FALSE, relevance_score |-> 0]

\* Identifiers an LLM entry can carry: those of the candidates and one unknown.
LlmIds == 1..(MaxCand + 1)

\* One element of the parsed array.  shape says which keys a lookup finds:
\*   "ok"        all keys present, relevance_score a number
\*   "no_id"     no "aweme_id" key (or the element is not an object)
\*   "no_score"  no usable "relevance_score" (missing, or not comparable to 70)
\*   "no_field"  one of relevance_reason / category / audience_match /
\*               trend_potential is missing
Entries ==
    [aweme_id : LlmIds, relevance_score : Scores, shape : {"ok"}]
    \cup [aweme_id : {1}, relevance_score : {Threshold}, shape : {"no_id"}]
    \cup [aweme_id : LlmIds, relevance_score : {Threshold}, shape : {"no_score", "no_field"}]

MatchingTrendUnenriched(ts, id) ==
    IF \E i \in 1..Len(ts) : ts[i].aweme_id = id /\ ~ts[i].enriched
    THEN CHOOSE i \in 1..Len(ts) :
            /\ ts[i].aweme_id = id /\ ~ts[i].enriched
            /\ \A j \in 1..(i - 1) : ~(ts[j].aweme_id = id /\ ~ts[j].enriched)
    ELSE 0

\* next((t for t in trends if t["aweme_id"] == filter_result["aweme_id"]), None):
\* the position of the first candidate with that identifier, 0 for None.
MatchingTrend(ts, id) ==
    IF \E i \in 1..Len(ts) : ts[i].aweme_id = id
    THEN CHOOSE i \in 1..Len(ts) :
            /\ ts[i].aweme_id = id
            /\ \A j \in 1..(i - 1) : ts[j].aweme_id # id
    ELSE 0

MeetsThresholdStrict(score) == score > Threshold

\* filter_result["relevance_score"] >= 70
MeetsThreshold(score) == score >= Threshold

\* matching_trend.update({...}): the enrichment keys are overwritten in place
Enrich(t, e) == [t EXCEPT !.enriched = TRUE, !.relevance_score = e.relevance_score]

\* The reconciliation loop over filter_results from entry k on; acc is
\* filtered_trends so far.  raised = an exception left the loop.
RECURSIVE Reconcile(_, _, _, _)
Reconcile(ts, entries, k, acc) ==
    IF k > Len(entries)
    THEN [trends |-> ts, filtered |-> acc, raised |-> FALSE]
    ELSE LET e == entries[k]
             stop == [trends |-> ts, filtered |-> acc, raised |-> TRUE]
         IN  \* the generator reads filter_result["aweme_id"] once per candidate
             IF e.shape = "no_id"
             THEN IF Len(ts) > 0 THEN stop ELSE Reconcile(ts, entries, k + 1, acc)
             ELSE LET m == MatchingTrend(ts, e.aweme_id) IN
                  IF m = 0 THEN Reconcile(ts, entries, k + 1, acc)
                  ELSE IF e.shape = "no_score" THEN stop
                  ELSE IF ~MeetsThreshold(e.relevance_score)
                       THEN Reconcile(ts, entries, k + 1, acc)
                  ELSE IF e.shape = "no_field" THEN stop
                  ELSE Reconcile([ts EXCEPT ![m] = Enrich(ts[m], e)],
                                 entries, k + 1, Append(acc, m))

KeyGreaterOrTie(a, b) ==
    \/ a.relevance_score > b.relevance_score
    \/ /\ a.relevance_score = b.relevance_score
       /\ a.engagement_rate >= b.engagement_rate

\* key=lambda x: (x["relevance_score"], x["engagement_rate"]), compared as tuples
KeyGreater(a, b) ==
    \/ a.relevance_score > b.relevance_score
    \/ /\ a.relevance_score = b.relevance_score
       /\ a.engagement_rate > b.engagement_rate

\* list.sort(key=..., reverse=True) is stable: x goes after every element whose
\* key is not smaller than its own.
RECURSIVE InsertDesc(_, _, _)
InsertDesc(ts, sorted, x) ==
    IF sorted = <<>> THEN <<x>>
    ELSE IF KeyGreater(ts[x], ts[Head(sorted)])
         THEN <<x>> \o sorted
         ELSE <<Head(sorted)>> \o InsertDesc(ts, Tail(sorted), x)

RECURSIVE SortDesc(_, _)
SortDesc(ts, s) ==
    IF s = <<>> THEN <<>>
    ELSE InsertDesc(ts, SortDesc(ts, SubSeq(s, 1, Len(s) - 1)), s[Len(s)])

FallbackTooFew(ts, n) == [i \in 1..Min(n - 1, Len(ts)) |-> i]

\* except Exception: return trends[:max_results]
Fallback(ts, n) == [i \in 1..Min(n, Len(ts)) |-> i]

RankedUntruncated(sorted, n) == sorted

\* return filtered_trends[:max_results]
Ranked(sorted, n) == Take(sorted, n)

TrendsSummaryWholeList(ts) == [i \in 1..Len(ts) |-> ts[i].aweme_id]

\* self._prepare_trends_summary(trends[:20]): the identifiers the prompt lists
TrendsSummary(ts) == [i \in 1..Min(PromptLimit, Len(ts)) |-> ts[i].aweme_id]

FilterAndRankTrendsUnknownFails(ts, response, n) ==
    IF \/ response.kind = "throw"
       \/ \E k \in 1..Len(response.entries) :
             MatchingTrend(ts, response.entries[k].aweme_id) = 0
    THEN [trends |-> ts, filtered |-> <<>>, result |-> Fallback(ts, n),
          outcome |-> "fallback"]
    ELSE LET r == Reconcile(ts, response.entries, 1, <<>>) IN
         IF r.raised
         THEN [trends |-> r.trends, filtered |-> r.filtered,
               result |-> Fallback(r.trends, n), outcome |-> "fallback"]
         ELSE LET sorted == SortDesc(r.trends, r.filtered) IN
              [trends |-> r.trends, filtered |-> sorted,
               result |-> Ranked(sorted, n), outcome |-> "ranked"]

\* The whole call.  The prompt is built from trends[:20] only; the loop below
\* searches the whole list.
FilterAndRankTrends(ts, response, n) ==
    IF response.kind = "throw"
    THEN [trends |-> ts, filtered |-> <<>>, result |-> Fallback(ts, n),
          outcome |-> "fallback"]
    ELSE LET r == Reconcile(ts, response.entries, 1, <<>>) IN
         IF r.raised
         THEN [trends |-> r.trends, filtered |-> r.filtered,
               result |-> Fallback(r.trends, n), outcome |-> "fallback"]
         ELSE LET sorted == SortDesc(r.trends, r.filtered) IN
              [trends |-> r.trends, filtered |-> sorted,
               result |-> Ranked(sorted, n), outcome |-> "ranked"]

\* Candidate lists the callers pass: non-empty, one entry per identifier
\* (both callers deduplicate first and return early on an empty list).
CandidateLists ==
    UNION {
        {[i \in 1..n |-> Candidate(i, ers[i])] : ers \in [1..n -> EngagementRates]}
        : n \in 1..MaxCand}

LlmResponses ==
    {[kind |-> "throw", entries |-> <<>>]}
    \cup {[kind |-> "array", entries |-> es] : es \in SeqsUpTo(Entries, MaxEntries)}

RankInit ==
    /\ trends \in CandidateLists
    /\ llm \in LlmResponses
    /\ max_results \in 1..(MaxCand + 1)
    /\ filtered_trends = <<>>
    /\ result = <<>>
    /\ outcome = "idle"
    /\ previous_run = [outcome |-> "none"]
    /\ summarized = <<>>

FilterAndRank ==
    /\ outcome = "idle"
    /\ LET r == FilterAndRankTrends(trends, llm, max_results) IN
        /\ trends' = r.trends
        /\ filtered_trends' = r.filtered
        /\ result' = r.result
        /\ outcome' = r.outcome
    /\ summarized' = TrendsSummary(trends)
    /\ UNCHANGED <<llm, max_results, previous_run>>

\* The same call once more: same list object (its dicts as the first call left
\* them), same profile analysis, same completion
FilterAndRankAgain ==
    /\ outcome \in {"ranked", "fallback"}
    /\ previous_run.outcome = "none"
    /\ previous_run' = [outcome |-> outcome, trends |-> trends,
                        filtered |-> filtered_trends, result |-> result]
    /\ LET r == FilterAndRankTrends(trends, llm, max_results) IN
        /\ trends' = r.trends
        /\ filtered_trends' = r.filtered
        /\ result' = r.result
        /\ outcome' = r.outcome
    /\ summarized' = TrendsSummary(trends)
    /\ UNCHANGED <<llm, max_results>>

\* Candidate lists around the prompt's limit of 20, and responses that name the
\* first candidate, the candidates at positions 20, 21 and 22, and one
\* identifier past every list
LongLists ==
    {[i \in 1..n |-> Candidate(i, 1)] : n \in (PromptLimit - 1)..(PromptLimit + 2)}

LongListEntries ==
    [aweme_id : {1} \cup (PromptLimit..(PromptLimit + 3)),
     relevance_score : Scores, shape : {"ok"}]

LongListInit ==
    /\ trends \in LongLists
    /\ llm \in {[kind |-> "throw", entries |-> <<>>]}
               \cup {[kind |-> "array", entries |-> es] :
                        es \in SeqsUpTo(LongListEntries, MaxEntries)}
    /\ max_results \in {1, PromptLimit + 2}
    /\ filtered_trends = <<>>
    /\ result = <<>>
    /\ outcome = "idle"
    /\ previous_run = [outcome |-> "none"]
    /\ summarized = <<>>

RankIdle ==
    /\ trends = <<>>
    /\ llm = [kind |-> "throw", entries |-> <<>>]
    /\ max_results = 1
    /\ filtered_trends = <<>>
    /\ result = <<>>
    /\ outcome = "off"
    /\ previous_run = [outcome |-> "none"]
    /\ summarized = <<>>

(***************************************************************************)
(* Content source client: EnsembleService.search_hashtag_trends and        *)
(* search_keyword_trends (the two bodies differ only in the upstream       *)
(* endpoint and in the key, "hashtag" or "keyword", that tags each item).  *)
(***************************************************************************)
EngagementRateLikesOnly(stats) ==
    IF stats.play_count = 0 THEN 0
    ELSE (stats.digg_count * 100) \div stats.play_count

\* _calculate_engagement_rate.  The code computes (engagements / views) * 100 in
\* floating point; the statistics below are chosen so that the quotient is exact.
EngagementRate(stats) ==
    IF stats.play_count = 0 THEN 0
    ELSE ((stats.digg_count + stats.comment_count + stats.share_count) * 100)
             \div stats.play_count

PostStats ==
    {[play_count |-> 0, digg_count |-> 0, comment_count |-> 0, share_count |-> 0],
     [play_count |-> 100, digg_count |-> 1, comment_count |-> 1, share_count |-> 0],
     [play_count |-> 200, digg_count |-> 0, comment_count |-> 0, share_count |-> 0]}

PostIds == {1, 2}

Posts == [aweme_id : PostIds, statistics : PostStats]

\* What one upstream call does: raises (EDError or any other exception, also one
\* raised while its posts are being normalized), or returns result.data["data"].
UpstreamResponses ==
    {[ok |-> FALSE, posts |-> <<>>]}
    \cup {[ok |-> TRUE, posts |-> ps] : ps \in SeqsUpTo(Posts, MaxPosts)}

TermLists == {<<>>, <<1>>, <<1, 2>>}

\* trend_data = {...}: the flat item built from one post
Normalize(kind, term, post) ==
    [aweme_id |-> post.aweme_id,
     source |-> kind,
     term |-> term,
     play_count |-> post.statistics.play_count,
     engagement_rate |-> EngagementRate(post.statistics)]

\* for post in result.data.get("data", [])[:max_results]: ... trends.append(trend_data)
TermTrends(kind, term, posts, n) ==
    [i \in 1..Min(n, Len(posts)) |-> Normalize(kind, term, posts[i])]

AfterFailureAbort(rest) == <<>>

\* except ...: continue -- the loop goes on with the remaining terms
AfterFailure(rest) == rest

\* The loop over the terms: all is all_trends, calls the calls issued so far.
RECURSIVE Collect(_, _, _, _, _, _)
Collect(kind, terms, up, n, all, calls) ==
    IF terms = <<>> THEN [all |-> all, calls |-> calls]
    ELSE LET t == Head(terms) IN
         IF up[t].ok
         THEN Collect(kind, Tail(terms), up, n,
                      all \o TermTrends(kind, t, up[t].posts, n), Append(calls, t))
         ELSE Collect(kind, AfterFailure(Tail(terms)), up, n, all, Append(calls, t))

SearchKeyGreaterViewsFirst(a, b) ==
    \/ a.play_count > b.play_count
    \/ /\ a.play_count = b.play_count
       /\ a.engagement_rate > b.engagement_rate

\* key=lambda x: (x["engagement_rate"], x["statistics"]["play_count"])
SearchKeyGreater(a, b) ==
    \/ a.engagement_rate > b.engagement_rate
    \/ /\ a.engagement_rate = b.engagement_rate
       /\ a.play_count > b.play_count

\* all_trends.sort(key=..., reverse=True): stable
RECURSIVE SearchInsert(_, _)
SearchInsert(sorted, x) ==
    IF sorted = <<>> THEN <<x>>
    ELSE IF SearchKeyGreater(x, Head(sorted))
         THEN <<x>> \o sorted
         ELSE <<Head(sorted)>> \o SearchInsert(Tail(sorted), x)

RECURSIVE SearchSort(_)
SearchSort(s) ==
    IF s = <<>> THEN <<>>
    ELSE SearchInsert(SearchSort(SubSeq(s, 1, Len(s) - 1)), s[Len(s)])

\* The whole method: collect, sort, return all_trends[:max_results]
SearchTrends(kind, terms, up, n) ==
    LET c == Collect(kind, terms, up, n, <<>>, <<>>) IN
    [result |-> Take(SearchSort(c.all), n), calls |-> c.calls]

SearchInit ==
    /\ search_kind \in {"hashtag", "keyword"}
    /\ search_terms \in TermLists
    /\ upstream \in [Range(search_terms) -> UpstreamResponses]
    /\ search_max \in 1..MaxPosts
    /\ search_calls = <<>>
    /\ search_result = <<>>
    /\ search_state = "idle"

SearchIdle ==
    /\ search_kind = "hashtag"
    /\ search_terms = <<>>
    /\ upstream = <<>>
    /\ search_max = 1
    /\ search_calls = <<>>
    /\ search_result = <<>>
    /\ search_state = "off"

Search ==
    /\ search_state = "idle"
    /\ LET r == SearchTrends(search_kind, search_terms, upstream, search_max) IN
        /\ search_result' = r.result
        /\ search_calls' = r.calls
    /\ search_state' = "returned"
    /\ UNCHANGED <<search_kind, search_terms, upstream, search_max>>

(***************************************************************************)
(* Candidate aggregator: refresh_trends, step 2.                           *)
(***************************************************************************)
UniqueTrendsKeepAll(all) == all

\* seen_ids = set(); for trend in all_trends: if trend["aweme_id"] not in seen_ids ...
RECURSIVE Dedup(_, _, _)
Dedup(all, seen_ids, unique) ==
    IF all = <<>> THEN unique
    ELSE IF Head(all).aweme_id \in seen_ids
         THEN Dedup(Tail(all), seen_ids, unique)
         ELSE Dedup(Tail(all), seen_ids \cup {Head(all).aweme_id}, Append(unique, Head(all)))

UniqueTrends(all) == Dedup(all, {}, <<>>)

BatchIds == {1, 2, 3}

BatchItems(kind) ==
    [aweme_id : BatchIds, source : {kind}, engagement_rate : EngagementRates]

\* What a search returns to the aggregator: at most max_results items in
\* non-increasing engagement order; one identifier may occur more than once
\* (two terms can return the same post).
Batches(kind) ==
    {b \in SeqsUpTo(BatchItems(kind), MaxBatch) :
        \A i \in 1..(Len(b) - 1) : b[i].engagement_rate >= b[i + 1].engagement_rate}

AggInit ==
    /\ hashtag_trends \in Batches("hashtag")
    /\ keyword_trends \in Batches("keyword")
    /\ unique_trends = <<>>
    /\ agg_state = "idle"

AggIdle ==
    /\ hashtag_trends = <<>>
    /\ keyword_trends = <<>>
    /\ unique_trends = <<>>
    /\ agg_state = "off"

\* all_trends.extend(hashtag_trends); all_trends.extend(keyword_trends); dedup
Aggregate ==
    /\ agg_state = "idle"
    /\ unique_trends' = UniqueTrends(hashtag_trends \o keyword_trends)
    /\ agg_state' = "done"
    /\ UNCHANGED <<hashtag_trends, keyword_trends>>

(***************************************************************************)
(* Persistence adapter: SQLiteService.                                     *)
(* A table is the sequence of its rows; the AUTOINCREMENT id of a row is   *)
(* its position (no row is ever deleted).                                  *)
(***************************************************************************)
Handles == {"alice", "bob"}

AwemeIds == {1, 2}

Versions == {1, 2}

\* SELECT id FROM Users WHERE Username = ?  (0: fetchone() is None)
UserRow(users, username) ==
    IF \E i \in 1..Len(users) : users[i].Username = username
    THEN CHOOSE i \in 1..Len(users) :
            /\ users[i].Username = username
            /\ \A j \in 1..(i - 1) : users[j].Username # username
    ELSE 0

CreateUserProfileKeepAnalysis(users, record, connect_ok) ==
    IF ~connect_ok THEN [users |-> users, ok |-> FALSE]
    ELSE LET existing == UserRow(users, record.Username) IN
         IF existing # 0
         THEN [users |-> [users EXCEPT ![existing].Data = record.Data], ok |-> TRUE]
         ELSE [users |-> Append(users, record), ok |-> TRUE]

\* create_user_profile: update the row of that Username, or insert one.
\* connect() returning False, or any exception, raises ValueError.
CreateUserProfile(users, record, connect_ok) ==
    IF ~connect_ok THEN [users |-> users, ok |-> FALSE]
    ELSE LET existing == UserRow(users, record.Username) IN
         IF existing # 0
         THEN [users |-> [users EXCEPT ![existing] = record], ok |-> TRUE]
         ELSE [users |-> Append(users, record), ok |-> TRUE]

ExistingTrendNone(rows, aweme_id) == 0

\* SELECT id FROM Trends WHERE Aweme_ID = ?  (0: fetchone() is None)
ExistingTrend(rows, aweme_id) ==
    IF \E i \in 1..Len(rows) : rows[i].Aweme_ID = aweme_id
    THEN CHOOSE i \in 1..Len(rows) :
            /\ rows[i].Aweme_ID = aweme_id
            /\ \A j \in 1..(i - 1) : rows[j].Aweme_ID # aweme_id
    ELSE 0

\* FOREIGN KEY (Username) REFERENCES Users(Username), with PRAGMA foreign_keys = ON
ForeignKeyHolds(users, username) == UserRow(users, username) # 0

\* Aweme_ID TEXT NOT NULL UNIQUE
UniqueHolds(rows, aweme_id) == \A i \in 1..Len(rows) : rows[i].Aweme_ID # aweme_id

\* The loop of save_trends.  Every row write commits at once, so the rows written
\* before an exception stay; ok = FALSE is "except Exception: return False".
RECURSIVE SaveLoop(_, _, _, _, _, _)
SaveLoop(rows, users, items, username, clock, written) ==
    IF items = <<>>
    THEN [rows |-> rows, now |-> clock, written |-> written, ok |-> TRUE]
    ELSE LET t == Head(items)
             \* the other columns are written by the same statement as these
             trend_record == [Aweme_ID |-> t.aweme_id, Username |-> username,
                              Saved_At |-> clock]
             existing == ExistingTrend(rows, t.aweme_id)
             failed == [rows |-> rows, now |-> clock, written |-> written, ok |-> FALSE]
         IN  IF ~ForeignKeyHolds(users, username) THEN failed
             ELSE IF existing = 0
                  THEN IF ~UniqueHolds(rows, t.aweme_id) THEN failed
                       ELSE SaveLoop(Append(rows, trend_record), users, Tail(items),
                                     username, clock + 1, written \cup {t.aweme_id})
                  ELSE SaveLoop([rows EXCEPT ![existing] = trend_record], users,
                                Tail(items), username, clock + 1,
                                written \cup {t.aweme_id})

\* save_trends(trends, username)
SaveTrends(rows, users, items, username, clock, connect_ok) ==
    IF ~connect_ok
    THEN [rows |-> rows, now |-> clock, written |-> {}, ok |-> FALSE]
    ELSE SaveLoop(rows, users, items, username, clock, {})

SaveItems == [aweme_id : AwemeIds]

StoreInit ==
    /\ Users = <<>>
    /\ Trends = <<>>
    /\ now = 0
    /\ ever_saved = {}
    /\ latest = [h \in Handles |-> <<>>]
    /\ last = [op |-> "none"]

StoreIdle == StoreInit

\* database_service.create_user_profile(profile_data, analysis)
UpsertProfile ==
    \E h \in Handles, d \in Versions, a \in {"gpt", "fallback"}, connect_ok \in BOOLEAN :
        LET record == [Username |-> h, Data |-> d, Analysis |-> a]
            r == CreateUserProfile(Users, record, connect_ok)
        IN  /\ Users' = r.users
            /\ latest' = IF r.ok THEN [latest EXCEPT ![h] = <<record>>] ELSE latest
            /\ last' = [op |-> "create_user_profile", username |-> h,
                        connect_ok |-> connect_ok, ok |-> r.ok]
            /\ UNCHANGED <<Trends, now, ever_saved>>

\* database_service.save_trends(filtered_trends, username)
UpsertItems ==
    \E items \in SeqsUpTo(SaveItems, MaxSave), h \in Handles, connect_ok \in BOOLEAN :
        /\ now + Len(items) <= MaxClock
        /\ LET r == SaveTrends(Trends, Users, items, h, now, connect_ok) IN
            /\ Trends' = r.rows
            /\ now' = r.now
            /\ ever_saved' = ever_saved \cup r.written
            /\ last' = [op |-> "save_trends", username |-> h, items |-> items,
                        connect_ok |-> connect_ok,
                        owner_known |-> ForeignKeyHolds(Users, h), ok |-> r.ok]
        /\ UNCHANGED <<Users, latest>>

(***************************************************************************)
(* Persistence adapter: the list queries get_user_trends and               *)
(* get_all_trends.                                                         *)
(***************************************************************************)
\* limit: both endpoints declare it with ge=1.  One limit that cuts a list of
\* two rows, one that no stored list reaches.
Limits == {1, MaxSave + 1}

\* ORDER BY Saved_At DESC: x goes before the first row saved earlier than it.
\* (Every row write reads a later clock, so no two rows share a Saved_At.)
RECURSIVE BySavedAtDesc(_, _)
BySavedAtDesc(sorted, x) ==
    IF sorted = <<>> THEN <<x>>
    ELSE IF x.Saved_At > Head(sorted).Saved_At
         THEN <<x>> \o sorted
         ELSE <<Head(sorted)>> \o BySavedAtDesc(Tail(sorted), x)

RECURSIVE OrderTrends(_, _)
OrderTrends(rows, k) ==
    IF k = 0 THEN <<>>
    ELSE BySavedAtDesc(OrderTrends(rows, k - 1), rows[k])

\* WHERE Username = ?
RECURSIVE OwnedBy(_, _)
OwnedBy(rows, username) ==
    IF rows = <<>> THEN <<>>
    ELSE IF Head(rows).Username = username
         THEN <<Head(rows)>> \o OwnedBy(Tail(rows), username)
         ELSE OwnedBy(Tail(rows), username)

GetUserTrendsUnordered(rows, username, limit, connect_ok) ==
    IF ~connect_ok THEN <<>>
    ELSE Take(OwnedBy(rows, username), limit)

\* get_user_trends(username, limit): [] when connect() fails
GetUserTrends(rows, username, limit, connect_ok) ==
    IF ~connect_ok THEN <<>>
    ELSE LET owned == OwnedBy(rows, username) IN
         Take(OrderTrends(owned, Len(owned)), limit)

\* get_all_trends(limit): [] when connect() fails
GetAllTrends(rows, limit, connect_ok) ==
    IF ~connect_ok THEN <<>>
    ELSE Take(OrderTrends(rows, Len(rows)), limit)

\* The profiles of both handles are persisted (a save_trends call for a handle
\* without a profile fails on the foreign key)
ListInit ==
    /\ Users = <<[Username |-> "alice", Data |-> 1, Analysis |-> "gpt"],
                 [Username |-> "bob", Data |-> 1, Analysis |-> "gpt"]>>
    /\ latest = [h \in Handles |-> <<[Username |-> h, Data |-> 1, Analysis |-> "gpt"]>>]
    /\ Trends = <<>>
    /\ now = 0
    /\ ever_saved = {}
    /\ last = [op |-> "none"]
    /\ listed = [op |-> "none"]
    /\ saved_for = {}

ListIdle ==
    /\ listed = [op |-> "off"]
    /\ saved_for = {}

\* GET /trends/{username}
ListItemsByOwner ==
    \E h \in Handles, limit \in Limits, connect_ok \in BOOLEAN :
        /\ listed' = [op |-> "get_user_trends", username |-> h, limit |-> limit,
                      connect_ok |-> connect_ok,
                      rows |-> GetUserTrends(Trends, h, limit, connect_ok)]
        /\ UNCHANGED <<storeVars, saved_for>>

\* GET /trends
ListAllItems ==
    \E limit \in Limits, connect_ok \in BOOLEAN :
        /\ listed' = [op |-> "get_all_trends", username |-> "", limit |-> limit,
                      connect_ok |-> connect_ok,
                      rows |-> GetAllTrends(Trends, limit, connect_ok)]
        /\ UNCHANGED <<storeVars, saved_for>>

\* save_trends between two list queries
SaveBeforeListing ==
    /\ UpsertItems
    /\ listed' = [op |-> "none"]
    /\ saved_for' = IF last'.ok
                    THEN saved_for \cup {<<last'.username, last'.items[k].aweme_id>> :
                                            k \in 1..Len(last'.items)}
                    ELSE saved_for

(***************************************************************************)
(* Persistence adapter: two requests upserting the same key.  Each call    *)
(* opens its own connection, runs its SELECT, then its INSERT or UPDATE,   *)
(* which _create_table_row / _update_table_row commit at once; no          *)
(* transaction spans the SELECT and the write.  A step is one statement.   *)
(***************************************************************************)
Requests == {1, 2}

\* _create_table_row("Trends", record): the INSERT raises on Aweme_ID UNIQUE
InsertTrend(rows, record) ==
    IF UniqueHolds(rows, record.Aweme_ID)
    THEN [rows |-> Append(rows, record), ok |-> TRUE]
    ELSE [rows |-> rows, ok |-> FALSE]

\* _create_table_row("Users", record): the INSERT raises on Username UNIQUE
InsertUser(users, record) ==
    IF UserRow(users, record.Username) = 0
    THEN [rows |-> Append(users, record), ok |-> TRUE]
    ELSE [rows |-> users, ok |-> FALSE]

\* _update_table_row(table, row_id, record): UPDATE ... WHERE id = ?
UpdateRow(rows, row_id, record) ==
    [rows |-> [rows EXCEPT ![row_id] = record], ok |-> TRUE]

\* Both requests write the same key: one identifier for owners that have a
\* profile, or one handle; the row exists already, or it does not.
RaceInit ==
    /\ race_kind \in {"save_trends", "create_user_profile"}
    /\ race_args \in
          IF race_kind = "save_trends"
          THEN [Requests -> [Aweme_ID : {1}, Username : Handles]]
          ELSE [Requests -> [Username : {"alice"}, Data : Versions,
                             Analysis : {"gpt", "fallback"}]]
    /\ \E stored \in BOOLEAN :
          /\ Users = IF race_kind = "save_trends"
                     THEN <<[Username |-> "alice", Data |-> 1, Analysis |-> "gpt"],
                            [Username |-> "bob", Data |-> 1, Analysis |-> "gpt"]>>
                     ELSE IF stored
                          THEN <<[Username |-> "alice", Data |-> 1, Analysis |-> "gpt"]>>
                          ELSE <<>>
          /\ Trends = IF race_kind = "save_trends" /\ stored
                      THEN <<[Aweme_ID |-> 1, Username |-> "alice", Saved_At |-> 0]>>
                      ELSE <<>>
    /\ latest = [h \in Handles |->
                    IF UserRow(Users, h) # 0 THEN <<Users[UserRow(Users, h)]>> ELSE <<>>]
    /\ now = Len(Trends)
    /\ ever_saved = {Trends[i].Aweme_ID : i \in 1..Len(Trends)}
    /\ last = [op |-> "none"]
    /\ race_pc = [r \in Requests |-> "check"]
    /\ race_existing = [r \in Requests |-> 0]
    /\ race_ok = [r \in Requests |-> TRUE]
    /\ race_start = [users |-> Users, trends |-> Trends]

RaceIdle ==
    /\ race_kind = "none"
    /\ race_args = <<>>
    /\ race_pc = <<>>
    /\ race_existing = <<>>
    /\ race_ok = <<>>
    /\ race_start = <<>>

\* self.cursor.execute("SELECT id FROM ... WHERE <key> = ?"); fetchone()
RaceCheck ==
    \E r \in Requests :
        /\ race_pc[r] = "check"
        /\ race_existing' =
              [race_existing EXCEPT ![r] =
                  IF race_kind = "save_trends"
                  THEN ExistingTrend(Trends, race_args[r].Aweme_ID)
                  ELSE UserRow(Users, race_args[r].Username)]
        /\ race_pc' = [race_pc EXCEPT ![r] = "write"]
        /\ UNCHANGED <<storeVars, race_kind, race_args, race_ok, race_start>>

\* if not existing: _create_table_row(...) else: _update_table_row(...);
\* an exception makes save_trends return False and create_user_profile raise
RaceWrite ==
    \E r \in Requests :
        /\ race_pc[r] = "write"
        /\ IF race_kind = "save_trends"
           THEN LET record == [Aweme_ID |-> race_args[r].Aweme_ID,
                               Username |-> race_args[r].Username, Saved_At |-> now]
                    w == IF race_existing[r] = 0 THEN InsertTrend(Trends, record)
                         ELSE UpdateRow(Trends, race_existing[r], record)
                IN  /\ Trends' = w.rows
                    /\ now' = IF w.ok THEN now + 1 ELSE now
                    /\ ever_saved' = IF w.ok THEN ever_saved \cup {record.Aweme_ID}
                                     ELSE ever_saved
                    /\ race_ok' = [race_ok EXCEPT ![r] = w.ok]
                    /\ UNCHANGED <<Users, latest>>
           ELSE LET w == IF race_existing[r] = 0 THEN InsertUser(Users, race_args[r])
                         ELSE UpdateRow(Users, race_existing[r], race_args[r])
                IN  /\ Users' = w.rows
                    /\ latest' = IF w.ok
                                 THEN [latest EXCEPT ![race_args[r].Username] =
                                          <<race_args[r]>>]
                                 ELSE latest
                    /\ race_ok' = [race_ok EXCEPT ![r] = w.ok]
                    /\ UNCHANGED <<Trends, now, ever_saved>>
        /\ race_pc' = [race_pc EXCEPT ![r] = "done"]
        /\ UNCHANGED <<last, race_kind, race_args, race_existing, race_start>>

(***************************************************************************)
(* Content source client: profile lookup (EnsembleService.get_user_profile *)
(* and get_user_profile_strict) and the analyze-profile handler.           *)
(***************************************************************************)
\* What client.tiktok.user_info_from_username does, and the secondary
\* user_info_from_secuid call made when the payload has a secUid:
\*   "user"      a response with a user payload (data: which payload)
\*   "no_user"   a response without data or without a "user" field
\*   "ed_error"  raises EDError with a status code
\*   "error"     raises any other exception (unreachable, malformed payload)
UpstreamLookups ==
    [primary : {"user"}, status : {200}, data : Versions, secondary : {"ok", "fail"}]
    \cup [primary : {"no_user"}, status : {200}, data : {1}, secondary : {"fail"}]
    \cup [primary : {"ed_error"}, status : {404, 500}, data : {1}, secondary : {"fail"}]
    \cup [primary : {"error"}, status : {0}, data : {1}, secondary : {"fail"}]

\* A returned profile dict.  origin says where its fields were read from.
Returned(username, origin, api_source, data, stats_from, db_reads) ==
    [status |-> "returned", exc |-> "", code |-> 200, username |-> username,
     origin |-> origin, api_source |-> api_source, data |-> data,
     stats_from |-> stats_from, db_reads |-> db_reads]

\* An exception leaving the method (code: the HTTPException status, else 0)
Raised(exc, code, db_reads) ==
    [status |-> "raised", exc |-> exc, code |-> code, username |-> "",
     origin |-> "", api_source |-> "", data |-> 0, stats_from |-> "",
     db_reads |-> db_reads]

\* The profile built from the payload.  Its username is the payload's uniqueId,
\* or the handle asked for when the payload has none; the statistics come from
\* the secondary lookup when it succeeds, else from the primary payload.
LiveProfile(username, up) ==
    Returned(username, "upstream", "ensemble_enhanced", up.data,
             IF up.secondary = "ok" THEN "enhanced" ELSE "basic", 0)

\* SQLiteService.get_user_profile_sync: None (0) when connect() fails or the
\* query raises, else the row of that Username
GetUserProfileSync(users, username, read_ok) ==
    IF ~read_ok THEN 0 ELSE UserRow(users, username)

GetProfileFromDbNone(users, username, read_ok) == 0

\* EnsembleService._get_profile_from_db: the stored row of the handle, or None (0)
\* when there is none or the lookup fails
GetProfileFromDb(users, username, read_ok) == GetUserProfileSync(users, username, read_ok)

\* EnsembleService.get_user_profile.  reads[k] says whether the k-th store lookup
\* of the call can read the store.
GetUserProfile(username, up, users, reads) ==
    LET \* the except branches: cached data tagged database_fallback, else raise
        Fallback2(k, exc) ==
            LET row == GetProfileFromDb(users, username, reads[k]) IN
            IF row # 0
            THEN Returned(users[row].Username, "db", "database_fallback",
                          users[row].Data, "stored", k)
            ELSE [exc EXCEPT !.db_reads = k]
    IN  CASE up.primary = "user" -> LiveProfile(username, up)
          [] up.primary = "no_user" ->
                LET row == GetProfileFromDb(users, username, reads[1]) IN
                IF row # 0
                THEN Returned(users[row].Username, "db", "database",
                              users[row].Data, "stored", 1)
                ELSE \* the ValueError raised here is caught by except Exception
                     Fallback2(2, Raised("ValueError", 0, 2))
          [] up.primary = "ed_error" ->
                Fallback2(1, Raised("HTTPException", up.status, 1))
          [] OTHER -> Fallback2(1, Raised("ValueError", 0, 1))

\* The except clauses of get_user_profile_strict: EDError keeps its status code,
\* every other exception, an HTTPException raised in the try block included,
\* becomes HTTPException(500).
StrictExcept(exc, code) ==
    IF exc = "EDError" THEN Raised("HTTPException", code, 0)
    ELSE Raised("HTTPException", 500, 0)

GetUserProfileStrictWithCache(username, up, users, reads) ==
    GetUserProfile(username, up, users, reads)

\* EnsembleService.get_user_profile_strict: no store lookup anywhere
GetUserProfileStrict(username, up, users, reads) ==
    CASE up.primary = "user" -> LiveProfile(username, up)
      [] up.primary = "no_user" -> StrictExcept("HTTPException", 404)
      [] up.primary = "ed_error" -> StrictExcept("EDError", up.status)
      [] OTHER -> StrictExcept("Exception", 0)

\* The except clauses of analyze_tiktok_profile: ValueError -> 400, any other
\* exception (HTTPException included) -> 500.
AnalyzeExcept(exc) == IF exc = "ValueError" THEN 400 ELSE 500

\* analyze_tiktok_profile: the status code answered and the Users table after it.
\*   url_ok      extract_username_from_url finds a handle (else ValueError)
\*   posts       what get_user_posts does: "ok", or "error" (raises ValueError)
\*   analysis    which analysis analyze_profile returns: "gpt" or "fallback"
\*   connect_ok  whether create_user_profile can write (else ValueError)
AnalyzeTikTokProfile(users, url_ok, username, up, posts, analysis, connect_ok) ==
    IF ~url_ok
    THEN [users |-> users, fetched |-> Raised("", 0, 0), status |-> AnalyzeExcept("ValueError")]
    ELSE LET profile_data == GetUserProfileStrict(username, up, users, <<TRUE, TRUE>>) IN
         IF profile_data.status = "raised"
         THEN [users |-> users, fetched |-> profile_data,
               status |-> AnalyzeExcept(profile_data.exc)]
         ELSE IF posts = "error"
         THEN [users |-> users, fetched |-> profile_data,
               status |-> AnalyzeExcept("ValueError")]
         ELSE LET record == [Username |-> profile_data.username,
                             Data |-> profile_data.data, Analysis |-> analysis]
                  saved == CreateUserProfile(users, record, connect_ok)
              IN  IF ~saved.ok
                  THEN [users |-> users, fetched |-> profile_data,
                        status |-> AnalyzeExcept("ValueError")]
                  ELSE [users |-> saved.users, fetched |-> profile_data, status |-> 200,
                        record |-> record]

\* POST /analyze-profile
AnalyzeProfile ==
    \E url_ok \in BOOLEAN, h \in Handles, up \in UpstreamLookups,
       posts \in {"ok", "error"}, analysis \in {"gpt", "fallback"},
       connect_ok \in BOOLEAN :
        LET r == AnalyzeTikTokProfile(Users, url_ok, h, up, posts, analysis, connect_ok)
        IN  /\ Users' = r.users
            /\ latest' = IF r.status = 200
                         THEN [latest EXCEPT ![r.record.Username] = <<r.record>>]
                         ELSE latest
            /\ last' = [op |-> "analyze_profile", url_ok |-> url_ok, username |-> h,
                        up |-> up, res |-> r.fetched, status |-> r.status]
            /\ UNCHANGED <<Trends, now, ever_saved>>

\* ensemble_service.get_user_profile(username)
FetchProfile ==
    \E h \in Handles, up \in UpstreamLookups, reads \in [1..2 -> BOOLEAN] :
        /\ last' = [op |-> "get_user_profile", username |-> h, up |-> up,
                    reads |-> reads, res |-> GetUserProfile(h, up, Users, reads)]
        /\ UNCHANGED <<Users, Trends, now, ever_saved, latest>>

\* ensemble_service.get_user_profile_strict(username)
FetchProfileStrict ==
    \E h \in Handles, up \in UpstreamLookups, reads \in [1..2 -> BOOLEAN] :
        /\ last' = [op |-> "get_user_profile_strict", username |-> h, up |-> up,
                    reads |-> reads, res |-> GetUserProfileStrict(h, up, Users, reads)]
        /\ UNCHANGED <<Users, Trends, now, ever_saved, latest>>

(***************************************************************************)
(* Taste profile derivation: GPTService.analyze_profile and                *)
(* _fallback_profile_analysis.                                             *)
(***************************************************************************)
\* Python's None as the value of a string-typed field: the upstream JSON may
\* carry null for a key, and dict.get(key, default) then returns None.
None == "<None>"

\* niche_keywords, in the order the dict is iterated
NicheKeywords ==
    << [niche |-> "beauty",    keywords |-> {"beauty", "makeup", "skincare", "cosmetics"}],
       [niche |-> "fitness",   keywords |-> {"fitness", "workout", "gym", "health"}],
       [niche |-> "comedy",    keywords |-> {"funny", "comedy", "humor", "jokes"}],
       [niche |-> "food",      keywords |-> {"food", "cooking", "recipe", "chef"}],
       [niche |-> "tech",      keywords |-> {"tech", "technology", "gadgets", "ai"}],
       [niche |-> "lifestyle", keywords |-> {"lifestyle", "daily", "life", "vlog"}] >>

\* A bio is null, or a text, given by the keywords that occur in it
BioWords == {"makeup", "gym", "ai"}

Bios == {[null |-> TRUE, words |-> {}]} \cup [null : {FALSE}, words : SUBSET BioWords]

Regions == {"US", "", None}

ProfileInputs == [bio : Bios, region : Regions]

RecentPosts == [desc : {"dance", None}]

\* What the chat completion and the parsing of its text do:
\*   "error"          the call raises
\*   "not_json"       json.loads raises
\*   "not_object"     the JSON is not an object: ProfileAnalysis(**result) raises
\*   "missing_field"  a field of ProfileAnalysis is absent: validation raises
\*   "wrong_type"     a field has the wrong type: validation raises
\*   "object"         an object with all seven fields, well typed
GptReplies ==
    [kind : {"error", "not_json", "not_object", "missing_field", "wrong_type"},
     interests : {<<>>}, keywords : {<<>>}, hashtags : {<<>>}]
    \cup [kind : {"object"}, interests : {<<>>, <<"dance">>},
          keywords : {<<>>, <<"dance">>}, hashtags : {<<>>, <<"fyp">>}]

DeriveReturned(source, niche, interests, keywords, hashtags) ==
    [status |-> "returned", exc |-> "", source |-> source, niche |-> niche,
     interests |-> interests, keywords |-> keywords, hashtags |-> hashtags]

DeriveRaised(exc) ==
    [status |-> "raised", exc |-> exc, source |-> "", niche |-> "",
     interests |-> <<>>, keywords |-> <<>>, hashtags |-> <<>>]

\* for niche, keywords in niche_keywords.items(): if any(keyword in bio ...): break
RECURSIVE DetectNiche(_, _)
DetectNiche(words, k) ==
    IF k > Len(NicheKeywords) THEN "lifestyle"
    ELSE IF NicheKeywords[k].keywords \cap words # {} THEN NicheKeywords[k].niche
    ELSE DetectNiche(words, k + 1)

\* _fallback_profile_analysis: profile_data.get('bio', '').lower() raises on None;
\* ProfileAnalysis(region_focus=None) fails validation (region_focus: str)
FallbackProfileAnalysis(profile) ==
    IF profile.bio.null THEN DeriveRaised("AttributeError")
    ELSE IF profile.region = None THEN DeriveRaised("ValidationError")
    ELSE LET detected_niche == DetectNiche(profile.bio.words, 1) IN
         DeriveReturned("fallback", detected_niche,
                        <<detected_niche, "trending", "viral">>,
                        <<detected_niche, "trending", "popular">>,
                        <<detected_niche, "fyp", "viral">>)

\* _prepare_profile_summary: chr(10).join(post_descriptions[:5]) over the
\* descriptions of user_posts[:10] raises TypeError when one of them is None
SummaryRaises(posts) ==
    \E i \in 1..Len(Take(Take(posts, 10), 5)) : posts[i].desc = None

\* analyze_profile: the summary is prepared before the try block
AnalyzeProfileGpt(profile, posts, reply) ==
    IF SummaryRaises(posts) THEN DeriveRaised("TypeError")
    ELSE IF reply.kind = "object"
    THEN DeriveReturned("gpt", "gpt", reply.interests, reply.keywords, reply.hashtags)
    ELSE FallbackProfileAnalysis(profile)

DeriveInit ==
    /\ analyzed_profile \in ProfileInputs
    /\ user_posts \in SeqsUpTo(RecentPosts, MaxRecent)
    /\ gpt_reply \in GptReplies
    /\ profile_analysis = [status |-> "idle"]

DeriveIdle ==
    /\ analyzed_profile = [bio |-> [null |-> FALSE, words |-> {}], region |-> ""]
    /\ user_posts = <<>>
    /\ gpt_reply = [kind |-> "error", interests |-> <<>>, keywords |-> <<>>,
                    hashtags |-> <<>>]
    /\ profile_analysis = [status |-> "off"]

\* gpt_service.analyze_profile(profile_data, user_posts)
Derive ==
    /\ profile_analysis.status = "idle"
    /\ profile_analysis' = AnalyzeProfileGpt(analyzed_profile, user_posts, gpt_reply)
    /\ UNCHANGED <<analyzed_profile, user_posts, gpt_reply>>

(***************************************************************************)
(* POST /refresh-trends: routers/trends.py, refresh_trends.                *)
(***************************************************************************)
\* The taste profile lists stored with a Users row.  "gpt_empty" is an analysis
\* the LLM returned with empty hashtags and keywords lists.
StoredAnalyses == {"gpt", "gpt_empty"}

StoredTerms ==
    [a \in StoredAnalyses |->
        IF a = "gpt" THEN [hashtags |-> <<1>>, keywords |-> <<1>>]
        ELSE [hashtags |-> <<>>, keywords |-> <<>>]]

RefreshPosts == [aweme_id : PostIds, statistics : {s \in PostStats : s.play_count > 0}]

RefreshUpstream ==
    {[ok |-> FALSE, posts |-> <<>>]}
    \cup {[ok |-> TRUE, posts |-> ps] : ps \in SeqsUpTo(RefreshPosts, MaxFound)}

\* The ranking LLM's entries during a refresh: about found items only, accepted
\* ones, well formed or (for the first identifier) lacking an enrichment field
RefreshEntries ==
    {e \in Entries :
        \/ (e.aweme_id \in PostIds /\ e.shape = "ok" /\ e.relevance_score > Threshold)
        \/ (e.aweme_id = 1 /\ e.shape = "no_field")}

RefreshLlmResponses ==
    {[kind |-> "throw", entries |-> <<>>]}
    \cup {[kind |-> "array", entries |-> es] : es \in SeqsUpTo(RefreshEntries, MaxFound + 1)}

\* What the services called by one request do:
\*   read_ok       database_service.get_user_profile can read the store
\*   hashtag_up    the upstream hashtag search, keyword_up the keyword search
\*   sentiment_ok  the sentiment completion succeeds
\*   prompt_ok     filter_and_rank_trends gets past building its prompt
\*   llm           the ranking completion
\*   connect_ok    save_trends can write to the store
\* A service that is not reached (nothing after a failed read, no completion
\* after a failed prompt) is given one behaviour only.
RefreshRequests ==
    [username : {"alice"}, max_results : {1, MaxFound + 1}, read_ok : {FALSE},
     hashtag_up : {[ok |-> FALSE, posts |-> <<>>]},
     keyword_up : {[ok |-> FALSE, posts |-> <<>>]},
     sentiment_ok : {FALSE}, prompt_ok : {FALSE},
     llm : {[kind |-> "throw", entries |-> <<>>]}, connect_ok : {FALSE}]
    \cup
    [username : {"alice"}, max_results : {1, MaxFound + 1}, read_ok : {TRUE},
     hashtag_up : RefreshUpstream, keyword_up : RefreshUpstream,
     sentiment_ok : BOOLEAN, prompt_ok : {FALSE},
     llm : {[kind |-> "throw", entries |-> <<>>]}, connect_ok : BOOLEAN]
    \cup
    [username : {"alice"}, max_results : {1, MaxFound + 1}, read_ok : {TRUE},
     hashtag_up : RefreshUpstream, keyword_up : RefreshUpstream,
     sentiment_ok : BOOLEAN, prompt_ok : {TRUE},
     llm : RefreshLlmResponses, connect_ok : BOOLEAN]

\* SQLiteService.get_user_profile: None (0) when connect() fails or the query raises
GetUserProfileAsync(users, username, read_ok) ==
    IF ~read_ok THEN 0 ELSE UserRow(users, username)

\* The candidate dict as the later steps see it: the search item, the enrichment
\* keys still unset, and the sentiment keys analyze_sentiment_and_audience sets
\* ("analyzed" from the completion, "neutral" by default or on failure).
WithSentiment(items, sentiment_ok) ==
    [i \in 1..Len(items) |->
        [aweme_id |-> items[i].aweme_id, source |-> items[i].source,
         term |-> items[i].term, play_count |-> items[i].play_count,
         engagement_rate |-> items[i].engagement_rate,
         enriched |-> FALSE, relevance_score |-> 0,
         sentiment |-> IF sentiment_ok THEN "analyzed" ELSE "neutral"]]

\* sorted(trends_with_sentiment, key=lambda x: x.get('engagement_rate', 0),
\*        reverse=True): stable
RECURSIVE InsertByEngagement(_, _)
InsertByEngagement(sorted, x) ==
    IF sorted = <<>> THEN <<x>>
    ELSE IF x.engagement_rate > Head(sorted).engagement_rate
         THEN <<x>> \o sorted
         ELSE <<Head(sorted)>> \o InsertByEngagement(Tail(sorted), x)

RECURSIVE SortedByEngagement(_)
SortedByEngagement(s) ==
    IF s = <<>> THEN <<>>
    ELSE InsertByEngagement(SortedByEngagement(SubSeq(s, 1, Len(s) - 1)), s[Len(s)])

\* Step 4 of the handler: the ranker's answer, or the handler's own fallback when
\* the ranker raises.  rank: which of the three produced the list.
RankStep(candidates, req) ==
    IF ~req.prompt_ok
    THEN [filtered |-> Take(SortedByEngagement(candidates), req.max_results),
          rank |-> "handler_fallback"]
    ELSE LET r == FilterAndRankTrends(candidates, req.llm, req.max_results) IN
         [filtered |-> [i \in 1..Len(r.result) |-> r.trends[r.result[i]]],
          rank |-> r.outcome]

\* calls: the service calls the handler made after reading the profile, in order
RefreshAnswer(status, items, found, rank, save_ok, calls) ==
    [status |-> status, trends |-> items, found |-> found, rank |-> rank,
     save_ok |-> save_ok, calls |-> calls]

NoTrendsFoundNever(unique) == FALSE

\* if not unique_trends: return TrendsResponse(success=True, trends=[], ...)
NoTrendsFound(unique) == unique = <<>>

\* The whole handler: the answer, and the store after it.
RefreshTrendsHandler(users, rows, clock, req) ==
    LET row == GetUserProfileAsync(users, req.username, req.read_ok)
        same == [rows |-> rows, now |-> clock, written |-> {}]
    IN  IF row = 0
        THEN [answer |-> RefreshAnswer(404, <<>>, 0, "none", TRUE, <<>>), store |-> same]
        ELSE
        LET terms == StoredTerms[users[row].Analysis]
            search_hashtag ==
                IF terms.hashtags # <<>>
                THEN SearchTrends("hashtag", Take(terms.hashtags, 5),
                                  [t \in Range(terms.hashtags) |-> req.hashtag_up], 25)
                ELSE [result |-> <<>>, calls |-> <<>>]
            search_keyword ==
                IF terms.keywords # <<>>
                THEN SearchTrends("keyword", Take(terms.keywords, 5),
                                  [t \in Range(terms.keywords) |-> req.keyword_up], 25)
                ELSE [result |-> <<>>, calls |-> <<>>]
            searches ==
                [i \in 1..Len(search_hashtag.calls) |-> "hashtag_search"]
                \o [i \in 1..Len(search_keyword.calls) |-> "keyword_search"]
            unique == UniqueTrends(search_hashtag.result \o search_keyword.result)
        IN  IF NoTrendsFound(unique)
            THEN [answer |-> RefreshAnswer(200, <<>>, 0, "none", TRUE, searches),
                  store |-> same]
            ELSE
            LET trends_with_sentiment == WithSentiment(unique, req.sentiment_ok)
                ranked == RankStep(trends_with_sentiment, req)
                saved == SaveTrends(rows, users, ranked.filtered, req.username,
                                    clock, req.connect_ok)
            IN  \* save_success is only logged
                [answer |-> RefreshAnswer(200, ranked.filtered, Len(unique),
                                          ranked.rank, saved.ok,
                                          searches \o <<"analyze_sentiment_and_audience",
                                                        "filter_and_rank_trends",
                                                        "save_trends">>),
                 store |-> [rows |-> saved.rows, now |-> saved.now,
                            written |-> saved.written]]

\* The store a refresh can find: empty, or holding the profile an earlier
\* analyze-profile request saved.
RefreshInit ==
    /\ refresh_request \in RefreshRequests
    /\ refresh_response = [status |-> 0]
    /\ Users \in {<<>>} \cup {<<[Username |-> "alice", Data |-> 1, Analysis |-> a]>> :
                              a \in StoredAnalyses}
    /\ Trends = <<>>
    /\ now = 0
    /\ ever_saved = {}
    /\ latest = [h \in Handles |->
                    IF UserRow(Users, h) # 0 THEN <<Users[UserRow(Users, h)]>> ELSE <<>>]
    /\ last = [op |-> "none"]

RefreshIdle ==
    /\ refresh_request = [username |-> "none"]
    /\ refresh_response = [status |-> 0]

RefreshTrends ==
    /\ refresh_response.status = 0
    /\ LET r == RefreshTrendsHandler(Users, Trends, now, refresh_request) IN
        /\ refresh_response' = r.answer
        /\ Trends' = r.store.rows
        /\ now' = r.store.now
        /\ ever_saved' = ever_saved \cup r.store.written
    /\ UNCHANGED <<Users, latest, last, refresh_request>>

(***************************************************************************)
(* Handle resolution: EnsembleService.extract_username_from_url.           *)
(***************************************************************************)
\* The characters a URL is made of here: the handle marker, the two separators
\* the code splits on, a lowercase and an uppercase letter.
UrlChars == {"@", "/", "?", "a", "B"}

Urls == SeqsUpTo(UrlChars, MaxUrl)

\* str.lower()
LowerChar(c) == IF c = "B" THEN "b" ELSE c

Lower(str) == [i \in 1..Len(str) |-> LowerChar(str[i])]

\* c in str
Contains(str, c) == \E i \in 1..Len(str) : str[i] = c

\* str.split(c)[-1]: what follows the last c (the whole string when there is none)
AfterLast(str, c) ==
    IF Contains(str, c)
    THEN LET p == CHOOSE i \in 1..Len(str) :
                    str[i] = c /\ \A j \in (i + 1)..Len(str) : str[j] # c
         IN  SubSeq(str, p + 1, Len(str))
    ELSE str

\* str.split(c)[0]: what precedes the first c (the whole string when there is none)
BeforeFirst(str, c) ==
    IF Contains(str, c)
    THEN LET p == CHOOSE i \in 1..Len(str) :
                    str[i] = c /\ \A j \in 1..(i - 1) : str[j] # c
         IN  SubSeq(str, 1, p - 1)
    ELSE str

\* The else branch: the first part of the path that starts with "@", without
\* the marker; <<"none">> when no part does (the for loop's else clause raises)
PathPartHandle(url) ==
    LET path == BeforeFirst(url, "?")
        starts == {i \in 1..Len(path) : path[i] = "@" /\ (i = 1 \/ path[i - 1] = "/")}
    IN  IF starts = {} THEN <<"none">>
        ELSE LET p == CHOOSE i \in starts : \A j \in starts : i <= j IN
             BeforeFirst(SubSeq(path, p + 1, Len(path)), "/")

UsernameReturned(name) == [status |-> "returned", username |-> name]

UsernameRaised == [status |-> "raised", username |-> <<>>]

\* extract_username_from_url: every exception becomes ValueError
ExtractUsernameFromUrl(url) ==
    IF Contains(url, "@")
    THEN UsernameReturned(Lower(BeforeFirst(BeforeFirst(AfterLast(url, "@"), "/"), "?")))
    ELSE IF PathPartHandle(url) = <<"none">> THEN UsernameRaised
    ELSE UsernameReturned(Lower(PathPartHandle(url)))

ResolveInit ==
    /\ tiktok_url \in Urls
    /\ extracted = [status |-> "idle"]

ResolveIdle ==
    /\ tiktok_url = <<>>
    /\ extracted = [status |-> "off"]

\* ensemble_service.extract_username_from_url(request.tiktok_url)
ResolveHandle ==
    /\ extracted.status = "idle"
    /\ extracted' = ExtractUsernameFromUrl(tiktok_url)
    /\ UNCHANGED tiktok_url

(***************************************************************************)
(* Engagement rate: the callers of _calculate_engagement_rate.             *)
(***************************************************************************)
\* Statistics whose rate is a whole number: the quotient is then exact both in
\* the code's floating point and in integer arithmetic.  The set holds the
\* tuple views=1000, likes=50, comments=30, shares=20.
ViewCounts == {0, 1, 100, 1000}

EngagementCounts == {0, 1, 20, 30, 50}

StatisticsInputs ==
    {st \in [play_count : ViewCounts, digg_count : EngagementCounts,
             comment_count : EngagementCounts, share_count : EngagementCounts] :
        \/ st.play_count = 0
        \/ ((st.digg_count + st.comment_count + st.share_count) * 100)
               % st.play_count = 0}

\* _calculate_advanced_metrics: engagement_rates = [self._calculate_engagement_rate(
\* post.get("statistics", {})) for post in posts]
MetricsEngagementRates(posts) ==
    [i \in 1..Len(posts) |-> EngagementRate(posts[i].statistics)]

\* high_engagement_posts: the posts whose rate is above 8
HighEngagementPosts(posts) ==
    Cardinality({i \in 1..Len(posts) : EngagementRate(posts[i].statistics) > 8})

EngagementInit ==
    /\ statistics \in StatisticsInputs
    /\ rates = [state |-> "idle"]

EngagementIdle ==
    /\ statistics = [play_count |-> 0, digg_count |-> 0, comment_count |-> 0,
                     share_count |-> 0]
    /\ rates = [state |-> "off"]

\* One post with these statistics goes through a hashtag search and through
\* the advanced metrics
ComputeEngagement ==
    /\ rates.state = "idle"
    /\ LET post == [aweme_id |-> 1, statistics |-> statistics] IN
        rates' = [state |-> "computed",
                  search |-> Normalize("hashtag", 1, post).engagement_rate,
                  metrics |-> MetricsEngagementRates(<<post>>)[1],
                  high |-> HighEngagementPosts(<<post>>)]
    /\ UNCHANGED statistics

(***************************************************************************)
(* Specifications, one per component.                                      *)
(***************************************************************************)
InitRank ==
    /\ RankInit
    /\ SearchIdle /\ AggIdle /\ StoreIdle /\ ListIdle
    /\ RaceIdle /\ DeriveIdle /\ RefreshIdle /\ ResolveIdle /\ EngagementIdle

NextRank ==
    \/ /\ FilterAndRank
       /\ UNCHANGED <<searchVars, aggVars, storeVars, listVars,
                      raceVars, deriveVars, refreshVars, resolveVars, engagementVars>>
    \/ /\ FilterAndRankAgain
       /\ UNCHANGED <<searchVars, aggVars, storeVars, listVars,
                      raceVars, deriveVars, refreshVars, resolveVars, engagementVars>>

SpecRank == InitRank /\ [][NextRank]_vars

InitLongList ==
    /\ LongListInit
    /\ SearchIdle /\ AggIdle /\ StoreIdle /\ ListIdle
    /\ RaceIdle /\ DeriveIdle /\ RefreshIdle /\ ResolveIdle /\ EngagementIdle

NextLongList ==
    /\ FilterAndRank
    /\ UNCHANGED <<searchVars, aggVars, storeVars, listVars,
                   raceVars, deriveVars, refreshVars, resolveVars, engagementVars>>

SpecLongList == InitLongList /\ [][NextLongList]_vars

InitSearch ==
    /\ SearchInit
    /\ RankIdle /\ AggIdle /\ StoreIdle /\ ListIdle
    /\ RaceIdle /\ DeriveIdle /\ RefreshIdle /\ ResolveIdle /\ EngagementIdle

NextSearch ==
    /\ Search
    /\ UNCHANGED <<rankVars, aggVars, storeVars, listVars,
                   raceVars, deriveVars, refreshVars, resolveVars, engagementVars>>

SpecSearch == InitSearch /\ [][NextSearch]_vars

InitAggregate ==
    /\ AggInit
    /\ RankIdle /\ SearchIdle /\ StoreIdle /\ ListIdle
    /\ RaceIdle /\ DeriveIdle /\ RefreshIdle /\ ResolveIdle /\ EngagementIdle

NextAggregate ==
    /\ Aggregate
    /\ UNCHANGED <<rankVars, searchVars, storeVars, listVars,
                   raceVars, deriveVars, refreshVars, resolveVars, engagementVars>>

SpecAggregate == InitAggregate /\ [][NextAggregate]_vars

InitStore ==
    /\ StoreInit
    /\ RankIdle /\ SearchIdle /\ AggIdle /\ ListIdle
    /\ RaceIdle /\ DeriveIdle /\ RefreshIdle /\ ResolveIdle /\ EngagementIdle

NextStore ==
    \/ /\ UpsertProfile
       /\ UNCHANGED <<rankVars, searchVars, aggVars, listVars,
                      raceVars, deriveVars, refreshVars, resolveVars, engagementVars>>
    \/ /\ UpsertItems
       /\ UNCHANGED <<rankVars, searchVars, aggVars, listVars,
                      raceVars, deriveVars, refreshVars, resolveVars, engagementVars>>

SpecStore == InitStore /\ [][NextStore]_vars

InitList ==
    /\ ListInit
    /\ RankIdle /\ SearchIdle /\ AggIdle /\ RaceIdle
    /\ DeriveIdle /\ RefreshIdle /\ ResolveIdle /\ EngagementIdle

NextList ==
    \/ /\ SaveBeforeListing
       /\ UNCHANGED <<rankVars, searchVars, aggVars, raceVars,
                      deriveVars, refreshVars, resolveVars, engagementVars>>
    \/ /\ ListItemsByOwner
       /\ UNCHANGED <<rankVars, searchVars, aggVars, raceVars,
                      deriveVars, refreshVars, resolveVars, engagementVars>>
    \/ /\ ListAllItems
       /\ UNCHANGED <<rankVars, searchVars, aggVars, raceVars,
                      deriveVars, refreshVars, resolveVars, engagementVars>>

SpecList == InitList /\ [][NextList]_vars

InitRace ==
    /\ RaceInit
    /\ RankIdle /\ SearchIdle /\ AggIdle /\ ListIdle
    /\ DeriveIdle /\ RefreshIdle /\ ResolveIdle /\ EngagementIdle

NextRace ==
    \/ /\ RaceCheck
       /\ UNCHANGED <<rankVars, searchVars, aggVars, listVars,
                      deriveVars, refreshVars, resolveVars, engagementVars>>
    \/ /\ RaceWrite
       /\ UNCHANGED <<rankVars, searchVars, aggVars, listVars,
                      deriveVars, refreshVars, resolveVars, engagementVars>>

SpecRace == InitRace /\ [][NextRace]_vars

InitProfile ==
    /\ StoreInit
    /\ RankIdle /\ SearchIdle /\ AggIdle /\ ListIdle
    /\ RaceIdle /\ DeriveIdle /\ RefreshIdle /\ ResolveIdle /\ EngagementIdle

NextProfile ==
    \/ /\ AnalyzeProfile
       /\ UNCHANGED <<rankVars, searchVars, aggVars, listVars,
                      raceVars, deriveVars, refreshVars, resolveVars, engagementVars>>
    \/ /\ FetchProfile
       /\ UNCHANGED <<rankVars, searchVars, aggVars, listVars,
                      raceVars, deriveVars, refreshVars, resolveVars, engagementVars>>
    \/ /\ FetchProfileStrict
       /\ UNCHANGED <<rankVars, searchVars, aggVars, listVars,
                      raceVars, deriveVars, refreshVars, resolveVars, engagementVars>>

SpecProfile == InitProfile /\ [][NextProfile]_vars

InitDerive ==
    /\ DeriveInit
    /\ RankIdle /\ SearchIdle /\ AggIdle /\ StoreIdle
    /\ ListIdle /\ RaceIdle /\ RefreshIdle /\ ResolveIdle /\ EngagementIdle

NextDerive ==
    /\ Derive
    /\ UNCHANGED <<rankVars, searchVars, aggVars, storeVars,
                   listVars, raceVars, refreshVars, resolveVars, engagementVars>>

SpecDerive == InitDerive /\ [][NextDerive]_vars

InitRefresh ==
    /\ RefreshInit
    /\ RankIdle /\ SearchIdle /\ AggIdle /\ ListIdle
    /\ RaceIdle /\ DeriveIdle /\ ResolveIdle /\ EngagementIdle

NextRefresh ==
    /\ RefreshTrends
    /\ UNCHANGED <<rankVars, searchVars, aggVars, listVars,
                   raceVars, deriveVars, resolveVars, engagementVars>>

SpecRefresh == InitRefresh /\ [][NextRefresh]_vars

InitResolve ==
    /\ ResolveInit
    /\ RankIdle /\ SearchIdle /\ AggIdle /\ StoreIdle
    /\ ListIdle /\ RaceIdle /\ DeriveIdle /\ RefreshIdle /\ EngagementIdle

NextResolve ==
    /\ ResolveHandle
    /\ UNCHANGED <<rankVars, searchVars, aggVars, storeVars,
                   listVars, raceVars, deriveVars, refreshVars, engagementVars>>

SpecResolve == InitResolve /\ [][NextResolve]_vars

InitEngagement ==
    /\ EngagementInit
    /\ RankIdle /\ SearchIdle /\ AggIdle /\ StoreIdle
    /\ ListIdle /\ RaceIdle /\ DeriveIdle /\ RefreshIdle /\ ResolveIdle

NextEngagement ==
    /\ ComputeEngagement
    /\ UNCHANGED <<rankVars, searchVars, aggVars, storeVars,
                   listVars, raceVars, deriveVars, refreshVars, resolveVars>>

SpecEngagement == InitEngagement /\ [][NextEngagement]_vars

(***************************************************************************)
(* Claims about the ranker, checked under SpecRank.                        *)
(***************************************************************************)
\* The entries of the response that carry a relevance_score
ScoredEntries == {k \in 1..Len(llm.entries) : llm.entries[k].shape \in {"ok", "no_field"}}

\* The candidate entry k names, 0 if none
Named(k) == MatchingTrend(trends, llm.entries[k].aweme_id)

C2_FallbackCount ==
    outcome = "fallback" =>
        /\ Len(result) = Min(max_results, Len(trends))
        /\ \A i \in 1..Len(result) : result[i] \in 1..Len(trends)
        /\ \A i, j \in 1..Len(result) :
              i # j => trends[result[i]].aweme_id # trends[result[j]].aweme_id

C2_Witness ==
    /\ outcome = "fallback"
    /\ llm.kind = "array"
    /\ filtered_trends # <<>>
    /\ Len(trends) > max_results
    /\ Len(result) = max_results

\* C3: on the failure path the returned list is in non-increasing engagement
\* order and no omitted candidate has a higher engagement rate than a returned one.
C3_FallbackSortedByEngagement ==
    outcome = "fallback" =>
        /\ \A i, j \in 1..Len(result) :
              i < j => trends[result[i]].engagement_rate >= trends[result[j]].engagement_rate
        /\ \A c \in 1..Len(trends) : \A i \in 1..Len(result) :
              c \notin Range(result)
                  => trends[c].engagement_rate <= trends[result[i]].engagement_rate

\* The case C4 is about: the array has k well-formed entries with distinct
\* identifiers, each naming a candidate and scoring at least 70.
AllEntriesAccepted ==
    /\ llm.kind = "array"
    /\ \A k \in 1..Len(llm.entries) :
          /\ llm.entries[k].shape = "ok"
          /\ Named(k) # 0
          /\ llm.entries[k].relevance_score >= Threshold
    /\ \A k, j \in 1..Len(llm.entries) :
          k # j => llm.entries[k].aweme_id # llm.entries[j].aweme_id

\* C4: in that case the call returns min(k, max_results) items, each named by the
\* LLM and carrying the score its entry gave, in non-increasing score order, and
\* no accepted candidate left out scores higher than a returned one.
C4_RankedExactly ==
    (outcome # "idle" /\ AllEntriesAccepted) =>
        /\ outcome = "ranked"
        /\ Len(result) = Min(Len(llm.entries), max_results)
        /\ \A i \in 1..Len(result) :
              \E k \in 1..Len(llm.entries) :
                  /\ Named(k) = result[i]
                  /\ trends[result[i]].relevance_score = llm.entries[k].relevance_score
        /\ \A i, j \in 1..Len(result) : i # j => result[i] # result[j]
        /\ \A i, j \in 1..Len(result) :
              i < j => trends[result[i]].relevance_score >= trends[result[j]].relevance_score
        /\ \A k \in 1..Len(llm.entries) : \A i \in 1..Len(result) :
              Named(k) \notin Range(result)
                  => llm.entries[k].relevance_score <= trends[result[i]].relevance_score

C4_Witness ==
    /\ outcome = "ranked"
    /\ AllEntriesAccepted
    /\ Len(llm.entries) = 2
    /\ llm.entries[1].relevance_score < llm.entries[2].relevance_score
    /\ Len(trends) > Len(llm.entries) - 1
    /\ max_results > Len(llm.entries)
    /\ result = <<Named(2), Named(1)>>

C4_WitnessTruncated ==
    /\ outcome = "ranked"
    /\ AllEntriesAccepted
    /\ Len(llm.entries) > max_results
    /\ Len(result) = max_results

\* The list as it was passed to the first call: no candidate enriched yet
OriginalTrends ==
    [i \in 1..Len(trends) |-> Candidate(trends[i].aweme_id, trends[i].engagement_rate)]

\* The entry carries an identifier that no candidate has
UnknownId(e) ==
    /\ e.shape # "no_id"
    /\ \A i \in 1..Len(trends) : trends[i].aweme_id # e.aweme_id

KnownId(e) == ~UnknownId(e)

\* C22: an entry whose identifier matches no candidate is dropped silently: the
\* call ends exactly as it would on the same array without those entries (same
\* outcome, same accepted candidates, same returned list, same enrichment), and
\* an array whose other entries are all well formed is ranked, not answered
\* with the fallback.
C22_UnknownIdDropped ==
    (outcome # "idle" /\ previous_run.outcome = "none" /\ llm.kind = "array") =>
        /\ LET known == [kind |-> "array", entries |-> SelectSeq(llm.entries, KnownId)]
               r == FilterAndRankTrends(OriginalTrends, known, max_results)
           IN  /\ outcome = r.outcome
               /\ filtered_trends = r.filtered
               /\ result = r.result
               /\ trends = r.trends
        /\ (\A k \in 1..Len(llm.entries) :
                UnknownId(llm.entries[k]) \/ llm.entries[k].shape = "ok")
              => outcome = "ranked"

\* An unknown identifier first, then an entry that is accepted and returned
C22_Witness ==
    /\ outcome = "ranked"
    /\ previous_run.outcome = "none"
    /\ Len(llm.entries) = 2
    /\ UnknownId(llm.entries[1])
    /\ llm.entries[2].shape = "ok"
    /\ Named(2) # 0
    /\ result = <<Named(2)>>

\* Sorted by (relevance_score, engagement_rate), both descending
SortedByKey(s) ==
    \A i, j \in 1..Len(s) : i < j => ~KeyGreater(trends[s[j]], trends[s[i]])

EqualKeys(c, d) ==
    /\ trends[c].relevance_score = trends[d].relevance_score
    /\ trends[c].engagement_rate = trends[d].engagement_rate

\* Where candidate c first stands in a list of positions
FirstIn(s, c) == CHOOSE i \in 1..Len(s) : s[i] = c /\ \A j \in 1..(i - 1) : s[j] # c

\* The first entry of the array that accepts candidate c
FirstAccepting(c) ==
    CHOOSE k \in 1..Len(llm.entries) :
        /\ Named(k) = c /\ llm.entries[k].relevance_score >= Threshold
        /\ \A j \in 1..(k - 1) :
              ~(Named(j) = c /\ llm.entries[j].relevance_score >= Threshold)

\* C23 (as stated): on success the accepted set is ordered by relevance_score,
\* then engagement_rate, both descending, and two accepted items equal on both
\* keys stand in the order they had in the candidate list passed in.
C23_TiesInCandidateOrder ==
    (outcome = "ranked" /\ previous_run.outcome = "none") =>
        /\ SortedByKey(filtered_trends)
        /\ result = Take(filtered_trends, max_results)
        /\ \A i, j \in 1..Len(filtered_trends) :
              (i < j /\ EqualKeys(filtered_trends[i], filtered_trends[j]))
                  => filtered_trends[i] <= filtered_trends[j]

\* C23 (amended): on success the accepted set is ordered by relevance_score, then
\* engagement_rate, both descending, and two accepted items equal on both keys
\* stand in the order in which the response array accepted them.
C23_TiesInResponseOrder ==
    (outcome = "ranked" /\ previous_run.outcome = "none") =>
        /\ SortedByKey(filtered_trends)
        /\ result = Take(filtered_trends, max_results)
        /\ \A c, d \in Range(filtered_trends) :
              (c # d /\ EqualKeys(c, d)) =>
                  (FirstIn(filtered_trends, c) < FirstIn(filtered_trends, d)
                      <=> FirstAccepting(c) < FirstAccepting(d))

\* The response accepts the second candidate before the first, with equal
\* scores and equal engagement rates: the second candidate is returned first
C23_Witness ==
    /\ outcome = "ranked"
    /\ previous_run.outcome = "none"
    /\ Len(llm.entries) = 2
    /\ Named(1) = 2
    /\ Named(2) = 1
    /\ EqualKeys(1, 2)
    /\ result = <<2, 1>>

\* C24 (checked under SpecLongList): the prompt lists the first 20 candidates only,
\* in the order of the list passed in, while the reconciliation loop looks
\* identifiers up in the whole list: whenever it runs to the end, every entry
\* scoring at least 70 that names a candidate has that candidate enriched and
\* accepted, at position 21 or later as among the first 20.
C24_LookupBeyondPrompt ==
    outcome # "idle" =>
        /\ Len(summarized) = Min(PromptLimit, Len(trends))
        /\ \A i \in 1..Len(summarized) : summarized[i] = trends[i].aweme_id
        /\ outcome = "ranked" =>
              \A k \in 1..Len(llm.entries) :
                 \A c \in 1..Len(trends) :
                    (/\ trends[c].aweme_id = llm.entries[k].aweme_id
                     /\ llm.entries[k].relevance_score >= Threshold)
                        => /\ trends[c].enriched
                           /\ c \in Range(filtered_trends)

\* A list of more than 20 candidates; the response names the candidate at
\* position 21, which the prompt did not list, and it is returned
C24_Witness ==
    /\ outcome = "ranked"
    /\ Len(trends) > PromptLimit
    /\ Len(summarized) = PromptLimit
    /\ \A i \in 1..Len(summarized) : summarized[i] # trends[PromptLimit + 1].aweme_id
    /\ \E k \in 1..Len(llm.entries) :
          llm.entries[k].aweme_id = trends[PromptLimit + 1].aweme_id
    /\ trends[PromptLimit + 1].enriched
    /\ PromptLimit + 1 \in Range(result)

\* C26 (as stated): whenever the call takes its failure fallback, also when an
\* entry fails after earlier entries were merged, no returned item carries the
\* enrichment keys (relevance score, reason, category, audience match, trend
\* potential).
C26_FallbackUnenriched ==
    (outcome = "fallback" /\ previous_run.outcome = "none") =>
        \A i \in 1..Len(result) : ~trends[result[i]].enriched

\* C28 (as stated): the returned list holds each candidate identifier at most
\* once, for every response, also one that lists an identifier in two entries.
C28_ResultIdsDistinct ==
    outcome # "idle" =>
        \A i, j \in 1..Len(result) :
            i # j => trends[result[i]].aweme_id # trends[result[j]].aweme_id

(***************************************************************************)
(* Claims about the aggregator, checked under SpecAggregate.               *)
(***************************************************************************)
AllTrends == hashtag_trends \o keyword_trends

\* The position in all_trends of the first item with the identifier of unique k
FirstPos(k) ==
    CHOOSE i \in 1..Len(AllTrends) :
        /\ AllTrends[i].aweme_id = unique_trends[k].aweme_id
        /\ \A j \in 1..(i - 1) : AllTrends[j].aweme_id # unique_trends[k].aweme_id

OkTerms == {t \in Range(search_terms) : upstream[t].ok}

RECURSIVE SumOver(_, _)
SumOver(S, f) ==
    IF S = {} THEN 0
    ELSE LET x == CHOOSE y \in S : TRUE IN f[x] + SumOver(S \ {x}, f)

\* The number of items the non-failing terms contribute
Contributed ==
    SumOver(OkTerms, [t \in OkTerms |-> Min(search_max, Len(upstream[t].posts))])

\* C10: whatever subset of the terms fails, a call is issued for every term, the
\* search returns, every returned item is a post of a non-failing term (tagged
\* with it), nothing a non-failing term contributes is lost except to the final
\* truncation, and the result is empty when every term fails.
C10_PartialFailureIsolated ==
    search_state = "returned" =>
        /\ search_calls = search_terms
        /\ \A i \in 1..Len(search_result) :
              /\ search_result[i].term \in OkTerms
              /\ \E p \in 1..Len(upstream[search_result[i].term].posts) :
                    search_result[i] =
                        Normalize(search_kind, search_result[i].term,
                                  upstream[search_result[i].term].posts[p])
        /\ Len(search_result) = Min(search_max, Contributed)
        /\ OkTerms = {} => search_result = <<>>

C10_Witness ==
    /\ search_state = "returned"
    /\ search_terms = <<1, 2>>
    /\ ~upstream[1].ok
    /\ upstream[2].ok
    /\ Len(upstream[2].posts) > 0
    /\ search_calls = <<1, 2>>
    /\ Len(search_result) > 0
    /\ search_result[1].term = 2

C10_WitnessAllFail ==
    /\ search_state = "returned"
    /\ search_terms = <<1, 2>>
    /\ OkTerms = {}
    /\ search_result = <<>>

(***************************************************************************)
(* Claims about the store, checked under SpecStore.                        *)
(***************************************************************************)
RowsOf(aweme_id) == {i \in 1..Len(Trends) : Trends[i].Aweme_ID = aweme_id}

\* C6: after any sequence of save_trends calls the store holds exactly one row for
\* each identifier ever written and no other row, and a call whose connection
\* opens and whose owner is a persisted profile succeeds for every batch (a
\* repeated batch, a batch naming one identifier twice), leaving each of its
\* items in the one row of its identifier.
C6_UpsertIdempotent ==
    /\ \A a \in AwemeIds :
          Cardinality(RowsOf(a)) = (IF a \in ever_saved THEN 1 ELSE 0)
    /\ (last.op = "save_trends" /\ last.connect_ok /\ last.owner_known) =>
          /\ last.ok
          /\ \A k \in 1..Len(last.items) :
                /\ last.items[k].aweme_id \in ever_saved
                /\ \A i \in RowsOf(last.items[k].aweme_id) :
                      Trends[i].Username = last.username

\* The same batch saved twice with unchanged items, and one row per identifier
C6_Witness ==
    /\ last.op = "save_trends"
    /\ last.ok
    /\ Len(last.items) = 2
    /\ last.items[1] = last.items[2]
    /\ now = 2 * Len(last.items)
    /\ Cardinality(RowsOf(last.items[1].aweme_id)) = 1
    /\ Len(Trends) = 1

(***************************************************************************)
(* Claims about profile lookup, checked under SpecProfile.                 *)
(***************************************************************************)
Persisted(username) == UserRow(Users, username) # 0

UpstreamFailed == last.up.primary # "user"

\* The persisted record, tagged with a source other than the live tag
StaleCopyReturned ==
    /\ last.res.status = "returned"
    /\ last.res.origin = "db"
    /\ last.res.api_source \in {"database", "database_fallback"}
    /\ last.res.api_source # LiveProfile(last.username, last.up).api_source
    /\ last.res.username = last.username
    /\ last.res.data = Users[UserRow(Users, last.username)].Data

\* C7 (as stated): whenever the upstream lookup fails and a profile of the handle
\* is persisted, get_user_profile returns the persisted record with a staleness
\* marker; it raises only when no profile of the handle is persisted.
C7_StaleFallbackWheneverPersisted ==
    (last.op = "get_user_profile" /\ UpstreamFailed) =>
        /\ Persisted(last.username) => StaleCopyReturned
        /\ last.res.status = "raised" => ~Persisted(last.username)

\* C7 (amended): the same, provided the store lookup the fallback makes can read
\* the store; the call raises only when no profile of the handle is persisted or
\* a store lookup failed.
C7_StaleFallbackWhenStoreReadable ==
    (last.op = "get_user_profile" /\ UpstreamFailed) =>
        /\ (Persisted(last.username) /\ last.reads[1]) => StaleCopyReturned
        /\ (Persisted(last.username) /\ last.up.primary = "no_user" /\ last.reads[2])
              => StaleCopyReturned
        /\ last.res.status = "raised" =>
              (~Persisted(last.username) \/ ~last.reads[1])
        /\ ~Persisted(last.username) => last.res.status = "raised"

C7_Witness ==
    /\ last.op = "get_user_profile"
    /\ last.up.primary = "ed_error"
    /\ Persisted(last.username)
    /\ last.reads[1]
    /\ StaleCopyReturned
    /\ last.res.api_source = "database_fallback"

C7_WitnessNoPayload ==
    /\ last.op = "get_user_profile"
    /\ last.up.primary = "no_user"
    /\ Persisted(last.username)
    /\ StaleCopyReturned
    /\ last.res.api_source = "database"

\* C8: in strict mode no store lookup is made; the call returns only a profile
\* built from the upstream payload, and fails for every other upstream outcome,
\* whatever the store holds.
C8_StrictNeverUsesStore ==
    last.op \in {"get_user_profile_strict", "analyze_profile"} =>
        /\ last.res.db_reads = 0
        /\ last.res.status = "returned" =>
              /\ last.up.primary = "user"
              /\ last.res.origin = "upstream"
              /\ last.res.api_source = "ensemble_enhanced"
              /\ last.res.data = last.up.data
        /\ (last.op = "get_user_profile_strict" /\ UpstreamFailed)
              => last.res.status = "raised"

C8_Witness ==
    /\ last.op = "get_user_profile_strict"
    /\ UpstreamFailed
    /\ Persisted(last.username)
    /\ last.reads[1]
    /\ last.res.status = "raised"

\* C9: when the upstream lookup returns no user payload, strict lookup fails with
\* status 404 and analyze-profile answers 404.
C9_NoPayloadIsNotFound ==
    (last.op = "analyze_profile" /\ last.url_ok /\ last.up.primary = "no_user") =>
        /\ last.res.status = "raised"
        /\ last.res.code = 404
        /\ last.status = 404

(***************************************************************************)
(* Claims about the returned search list, checked under SpecSearch.        *)
(***************************************************************************)
\* The item is the flat item of a post that the call for its own term returned
CarriesOwnTerm(item) ==
    /\ item.source = search_kind
    /\ item.term \in Range(search_terms)
    /\ upstream[item.term].ok
    /\ \E p \in 1..Len(upstream[item.term].posts) :
          item = Normalize(search_kind, item.term, upstream[item.term].posts[p])

\* C11: the returned list has at most max_results items, is ordered by
\* (engagement_rate, play_count) descending, and every item carries the term of
\* the upstream call that returned it.
C11_BoundedSortedTagged ==
    search_state = "returned" =>
        /\ Len(search_result) <= search_max
        /\ \A i, j \in 1..Len(search_result) :
              i < j =>
                 \/ search_result[i].engagement_rate > search_result[j].engagement_rate
                 \/ /\ search_result[i].engagement_rate = search_result[j].engagement_rate
                    /\ search_result[i].play_count >= search_result[j].play_count
        /\ \A i \in 1..Len(search_result) : CarriesOwnTerm(search_result[i])

\* Two answering terms, more items found than asked for, and the item returned
\* first comes from the second term: sorting and truncation both acted.
C11_Witness ==
    /\ search_state = "returned"
    /\ search_terms = <<1, 2>>
    /\ upstream[1].ok /\ upstream[2].ok
    /\ Len(upstream[1].posts) + Len(upstream[2].posts) > search_max
    /\ Len(search_result) = search_max
    /\ search_max >= 2
    /\ search_result[1].term = 2
    /\ search_result[2].term = 1
    /\ search_result[1].engagement_rate = search_result[2].engagement_rate
    /\ search_result[1].play_count > search_result[2].play_count

(***************************************************************************)
(* Claims about taste profile derivation, checked under SpecDerive.        *)
(***************************************************************************)
\* C12 (as stated): analyze_profile never raises; for every profile, every list of
\* recent posts and every outcome of the chat completion it returns a
\* ProfileAnalysis, the fallback one when the completion fails.
C12_DeriveNeverRaises ==
    profile_analysis.status \notin {"idle", "off"} =>
        /\ profile_analysis.status = "returned"
        /\ gpt_reply.kind # "object" => profile_analysis.source = "fallback"

\* C13 (as stated): every ProfileAnalysis returned has non-empty interests,
\* keywords and hashtags.
C13_ListsNonEmpty ==
    profile_analysis.status = "returned" =>
        /\ profile_analysis.interests # <<>>
        /\ profile_analysis.keywords # <<>>
        /\ profile_analysis.hashtags # <<>>

(***************************************************************************)
(* Claims about refresh-trends, checked under SpecRefresh.                 *)
(***************************************************************************)
Answered == refresh_response.status # 0

\* C14 (as stated): when the write of the ranked trends to the store fails, the
\* request is answered with a server error, never with a success response or a
\* client error.
C14_WriteFailureIsServerError ==
    (Answered /\ ~refresh_response.save_ok) => refresh_response.status >= 500

EngagementOrdered(items) ==
    \A i, j \in 1..Len(items) :
        i < j => items[i].engagement_rate >= items[j].engagement_rate

\* C15 (as stated): with a persisted profile the request is answered with a
\* success response whatever the searches, the sentiment completion and the
\* ranking completion do; when candidates were found and the ranking completion
\* fails, the response holds engagement-ordered candidates without enrichment.
C15_DegradedNeverFails ==
    (Answered /\ UserRow(Users, refresh_request.username) # 0
              /\ refresh_request.read_ok) =>
        /\ refresh_response.status = 200
        /\ (refresh_response.found > 0 /\ refresh_response.rank # "ranked") =>
              /\ refresh_response.trends # <<>>
              /\ EngagementOrdered(refresh_response.trends)
              /\ \A i \in 1..Len(refresh_response.trends) :
                    ~refresh_response.trends[i].enriched

(***************************************************************************)
(* Repeating the ranking call, checked under SpecRank.                     *)
(***************************************************************************)
\* C16: when filter_and_rank_trends is called a second time on the same list, with
\* the same profile analysis and the same completion, it accepts the same
\* candidates and returns the same items in the same order as the first time;
\* the enrichment the first call wrote into the dicts changes nothing.
C16_RerankIdempotent ==
    previous_run.outcome # "none" =>
        /\ outcome = previous_run.outcome
        /\ filtered_trends = previous_run.filtered
        /\ result = previous_run.result
        /\ trends = previous_run.trends

\* A repeated call whose first run enriched two candidates and ranked the second
\* candidate of the list first
C16_Witness ==
    /\ previous_run.outcome = "ranked"
    /\ Len(result) = 2
    /\ result[1] = 2
    /\ result[2] = 1
    /\ previous_run.trends[1].enriched
    /\ previous_run.trends[2].enriched

(***************************************************************************)
(* Claims about stored profiles, checked under SpecStore.                  *)
(***************************************************************************)
UserRowsOf(h) == {i \in 1..Len(Users) : Users[i].Username = h}

\* C17: after any sequence of create_user_profile calls the store holds exactly
\* one row for each handle a profile was written for (none for the others), and
\* get_user_profile of the handle returns the record of the most recent write,
\* every field of it: nothing of an earlier record is left.
C17_UpsertProfileWholesale ==
    \A h \in Handles :
        /\ Cardinality(UserRowsOf(h)) = Len(latest[h])
        /\ latest[h] # <<>> =>
              LET row == GetUserProfileAsync(Users, h, TRUE) IN
              /\ row # 0
              /\ Users[row] = latest[h][1]

\* The first handle written was written again after a second handle, with
\* other profile and analysis values than the row held
C17_Witness ==
    /\ Len(Users) = 2
    /\ last.op = "create_user_profile"
    /\ last.ok
    /\ last.username = Users[1].Username
    /\ Users[1].Data = 2
    /\ Users[1].Analysis = "fallback"
    /\ Users[2].Data = 1

(***************************************************************************)
(* Claims about handle resolution, checked under SpecResolve.              *)
(***************************************************************************)
Letters == {"a", "B"}

\* The URL has a handle-shaped segment: a marker followed by a letter
HasHandle(url) == \E i \in 1..(Len(url) - 1) : url[i] = "@" /\ url[i + 1] \in Letters

\* C18 (as stated): the call raises for every URL without a handle-shaped segment
\* (no "@" at all, or an "@" followed by an empty handle), and never returns an
\* empty handle.
C18_NoHandleIsInvalid ==
    extracted.status \in {"returned", "raised"} =>
        /\ ~HasHandle(tiktok_url) => extracted.status = "raised"
        /\ extracted.status = "returned" => extracted.username # <<>>

\* A profile URL: no marker before the handle, the handle a non-empty run of
\* letters after the first "@", ended by the end of the URL, a "/" or a "?"
FirstAt(url) == CHOOSE i \in 1..Len(url) : url[i] = "@" /\ \A j \in 1..(i - 1) : url[j] # "@"

HandleEnd(url, p) ==
    CHOOSE e \in p..Len(url) :
        /\ \A j \in (p + 1)..e : url[j] \in Letters
        /\ e = Len(url) \/ url[e + 1] \notin Letters

IsProfileUrl(url) ==
    /\ Contains(url, "@")
    /\ LET p == FirstAt(url)
           e == HandleEnd(url, p)
       IN  /\ e > p
           /\ e = Len(url) \/ url[e + 1] \in {"/", "?"}

HandleOf(url) == SubSeq(url, FirstAt(url) + 1, HandleEnd(url, FirstAt(url)))

\* C19 (as stated): for a profile URL the call returns the handle in lowercase,
\* without the marker and without the path or query string that follows it.
C19_HandleCanonical ==
    (extracted.status \in {"returned", "raised"} /\ IsProfileUrl(tiktok_url)) =>
        /\ extracted.status = "returned"
        /\ extracted.username = Lower(HandleOf(tiktok_url))

(***************************************************************************)
(* Claims about the engagement rate, checked under SpecEngagement.         *)
(***************************************************************************)
Engagements == statistics.digg_count + statistics.comment_count + statistics.share_count

C20_WitnessNoViews ==
    /\ rates.state = "computed"
    /\ statistics.play_count = 0
    /\ Engagements > 0
    /\ rates.search = 0
(***************************************************************************)
(* Claims about the list queries, checked under SpecList.                  *)
(***************************************************************************)
SavedAtNonIncreasing(rows) ==
    \A i, j \in 1..Len(rows) : i < j => rows[i].Saved_At >= rows[j].Saved_At

\* The rows a query selects from: those of the owner, or all of them
Selected ==
    {i \in 1..Len(Trends) :
        listed.op = "get_user_trends" => Trends[i].Username = listed.username}

\* C21: after any sequence of save_trends calls, get_user_trends(handle, limit)
\* returns at most limit rows, all owned by handle, in non-increasing Saved_At
\* order, and get_all_trends(limit) returns at most limit rows in non-increasing
\* Saved_At order; the rows are the stored ones, the most recently saved first,
\* and a row's Saved_At is stamped anew by every save_trends call that writes it.
C21_ListedBySaveTime ==
    /\ listed.op \in {"get_user_trends", "get_all_trends"} =>
          /\ Len(listed.rows) <= listed.limit
          /\ SavedAtNonIncreasing(listed.rows)
          /\ \A k \in 1..Len(listed.rows) :
                \E i \in Selected : listed.rows[k] = Trends[i]
          /\ listed.connect_ok =>
                /\ Len(listed.rows) = Min(listed.limit, Cardinality(Selected))
                /\ \A i \in Selected :
                      \/ \E k \in 1..Len(listed.rows) : listed.rows[k] = Trends[i]
                      \/ \A k \in 1..Len(listed.rows) :
                            listed.rows[k].Saved_At > Trends[i].Saved_At
    /\ (last.op = "save_trends" /\ last.ok) =>
          \A k \in 1..Len(last.items) :
             \A i \in RowsOf(last.items[k].aweme_id) :
                /\ Trends[i].Saved_At >= now - Len(last.items)
                /\ Trends[i].Saved_At < now

\* An item saved first and saved again after a second one is listed first
C21_Witness ==
    /\ listed.op = "get_user_trends"
    /\ Len(listed.rows) = 2
    /\ Len(Trends) = 2
    /\ Trends[1].Saved_At > Trends[2].Saved_At
    /\ listed.rows = <<Trends[1], Trends[2]>>

\* Two rows stored, one asked for: the later one is returned
C21_WitnessTruncated ==
    /\ listed.op = "get_all_trends"
    /\ listed.limit = 1
    /\ Len(Trends) = 2
    /\ Len(listed.rows) = 1
    /\ listed.rows[1].Saved_At = IF Trends[1].Saved_At > Trends[2].Saved_At
                                 THEN Trends[1].Saved_At ELSE Trends[2].Saved_At
\* C29 (as stated): an item saved for one owner stays in that owner's list after
\* another owner saves an item with the same identifier: a complete listing for
\* a handle holds every identifier a save_trends call for that handle wrote.
C29_OwnerKeepsItems ==
    (/\ listed.op = "get_user_trends"
     /\ listed.connect_ok
     /\ listed.limit >= Len(Trends)) =>
        \A a \in AwemeIds :
            <<listed.username, a>> \in saved_for =>
                \E k \in 1..Len(listed.rows) : listed.rows[k].Aweme_ID = a

(***************************************************************************)
(* Claims about what a search leaves out, checked under SpecSearch.        *)
(***************************************************************************)
\* C25 (as stated): every post that a non-failing term's upstream call returned
\* is normalized and competes for the result: no such post is left out while
\* the result holds an item ranking lower on (engagement_rate, play_count).
C25_BestOfAllReturned ==
    search_state = "returned" =>
        \A t \in OkTerms : \A k \in 1..Len(upstream[t].posts) :
            LET item == Normalize(search_kind, t, upstream[t].posts[k]) IN
            \/ item \in Range(search_result)
            \/ \A i \in 1..Len(search_result) : ~SearchKeyGreater(item, search_result[i])

(***************************************************************************)
(* Claims about the guards of refresh-trends, checked under SpecRefresh.   *)
(***************************************************************************)
\* Every request starts on a store without trend rows
StoreUntouched == Trends = <<>> /\ now = 0 /\ ever_saved = {}

LlmOrStoreCalls ==
    {"analyze_sentiment_and_audience", "filter_and_rank_trends", "save_trends"}

\* C30: without a persisted profile for the requested handle the request is
\* answered 404, no search and no LLM call is made and the store is left as it
\* was; when a profile is persisted but the searches find nothing, the answer is
\* an empty success, again without an LLM call or a store write.
C30_GuardedBySavedProfile ==
    Answered =>
        /\ UserRow(Users, refresh_request.username) = 0 =>
              /\ refresh_response.status = 404
              /\ refresh_response.calls = <<>>
              /\ StoreUntouched
        /\ (refresh_response.calls # <<>> \/ ~StoreUntouched) =>
              UserRow(Users, refresh_request.username) # 0
        /\ (refresh_response.status = 200 /\ refresh_response.found = 0) =>
              /\ refresh_response.trends = <<>>
              /\ Range(refresh_response.calls) \cap LlmOrStoreCalls = {}
              /\ StoreUntouched

\* No profile persisted: not found
C30_Witness ==
    /\ Answered
    /\ Users = <<>>
    /\ refresh_response.status = 404
    /\ refresh_response.calls = <<>>

\* A persisted profile whose two searches return nothing: an empty success after
\* the two upstream calls
C30_WitnessNothingFound ==
    /\ Answered
    /\ refresh_response.status = 200
    /\ refresh_response.found = 0
    /\ refresh_response.calls = <<"hashtag_search", "keyword_search">>
    /\ StoreUntouched

(***************************************************************************)
(* Claims about concurrent upserts, checked under SpecRace.                *)
(***************************************************************************)
BothDone == \A r \in Requests : race_pc[r] = "done"

\* The table both requests write, now and when they started
RaceTable == IF race_kind = "save_trends" THEN Trends ELSE Users

RaceTableAtStart ==
    IF race_kind = "save_trends" THEN race_start.trends ELSE race_start.users

\* One whole call on a table, nothing running beside it
UpsertAlone(table, record) ==
    IF race_kind = "save_trends"
    THEN LET existing == ExistingTrend(table, record.Aweme_ID) IN
         IF existing = 0 THEN InsertTrend(table, record)
         ELSE UpdateRow(table, existing, record)
    ELSE LET existing == UserRow(table, record.Username) IN
         IF existing = 0 THEN InsertUser(table, record)
         ELSE UpdateRow(table, existing, record)

\* What request r writes when it is the k-th writer (Saved_At is the clock)
RaceRecord(r, k) ==
    IF race_kind = "save_trends"
    THEN [Aweme_ID |-> race_args[r].Aweme_ID, Username |-> race_args[r].Username,
          Saved_At |-> Len(race_start.trends) + k]
    ELSE race_args[r]

\* The table after request a's call followed by request b's
SerialTable(a, b) ==
    UpsertAlone(UpsertAlone(RaceTableAtStart, RaceRecord(a, 0)).rows,
                RaceRecord(b, 1)).rows

\* C27 (as stated): when two requests upsert the same item identifier or the same
\* profile handle and their SELECTs and writes interleave in any order, neither
\* call fails, the table holds exactly one row for the key, and the table is the
\* one some serial order of the two calls leaves.
C27_UpsertAtomic ==
    BothDone =>
        /\ \A r \in Requests : race_ok[r]
        /\ race_kind = "save_trends" => Cardinality(RowsOf(1)) = 1
        /\ race_kind = "create_user_profile" => Cardinality(UserRowsOf("alice")) = 1
        /\ RaceTable \in {SerialTable(1, 2), SerialTable(2, 1)}

====
